---- MODULE Spec2Model ----
(***************************************************************************)
(* A model of grimoire.py, the Grimoire static site generator.             *)
(*                                                                         *)
(* Names (file names, folder names, titles, ids, urls) are sequences of    *)
(* one-character strings, so that the character-level functions of the     *)
(* program (prefix stripping, capitalisation, separator replacement) are   *)
(* computed as the program computes them.  Paths are POSIX paths: a path   *)
(* is a sequence of segments and str(path) joins them with "/".            *)
(***************************************************************************)
EXTENDS Integers, Sequences, FiniteSets, TLC

VARIABLES
    \* --- Name Formatter runs (format_display_name applied once, twice)
    fname, fstrip, facr, fovr, fout, fout2, fstage,
    \* --- calculate_reading_time runs
    rwords, rtime, rstage,
    \* --- Document Loader runs (process_markdown_file on one file)
    lfile, lcontent, lpage, lstage,
    \* --- a run of main(): the file system it finds and the converter's state
    dir_exists,     \* the content directory exists
    disk,           \* the files under it, as paths relative to it
    content,        \* the content of each of them
    static_files,   \* the *.md files of the static pages folder, with content
    pc,             \* position in main() / generate_site()
    all_pages,      \* self.all_pages
    categories,     \* self.categories, in insertion order
    next_page,      \* index of the next page generate_site's loop renders
    static_left,    \* static pages generate_static_pages has yet to render
    written,        \* the output files written so far, in order
    diag,           \* the diagnostics printed so far
    exit_code,      \* the exit status of the process, -1 while it runs
    \* --- Tree Builder runs (build_tree on a Page list and on a shuffle of it)
    tpages, tshuffled, tree, tree_shuffled, tbuilt,
    \* --- Navigation runs (generate_navigation_html_for_depth on a Page list)
    npages, ndepth, nav, nstage,
    \* --- runs of strip_number_prefix and of capitalize_with_acronyms on a text
    wop, wtext, wacr, wout, wstage,
    \* --- Content Scanner runs (scan_directory on two enumerations of a directory)
    senum, senum2, sscan, sscan2, sdone,
    \* --- SEO Emitter runs (descriptions generated for one page of one type)
    edescription, etype, epage, emeta, ejson_ld, estage,
    \* --- placeholder substitution runs (a template and its replacements)
    ptemplate, preplacements, phtml, pstage,
    \* --- one converter scanning its content directory again and again
    cfiles, cpages, ccategories, cscans

fmtVars  == <<fname, fstrip, facr, fovr, fout, fout2, fstage>>
rtVars   == <<rwords, rtime, rstage>>
loadVars == <<lfile, lcontent, lpage, lstage>>
runVars  == <<dir_exists, disk, content, static_files, pc, all_pages, categories,
              next_page, static_left, written, diag, exit_code>>
treeVars == <<tpages, tshuffled, tree, tree_shuffled, tbuilt>>
navVars  == <<npages, ndepth, nav, nstage>>
scanVars == <<senum, senum2, sscan, sscan2, sdone>>
wordVars == <<wop, wtext, wacr, wout, wstage>>
seoVars  == <<edescription, etype, epage, emeta, ejson_ld, estage>>
substVars == <<ptemplate, preplacements, phtml, pstage>>
rescanVars == <<cfiles, cpages, ccategories, cscans>>
vars     == <<fmtVars, rtVars, loadVars, runVars, treeVars, navVars, scanVars,
              wordVars, seoVars, substVars, rescanVars>>

\* what each specification leaves alone
notFmt   == <<rtVars, loadVars, runVars, treeVars, navVars, scanVars,
             wordVars, seoVars, substVars, rescanVars>>
notRt    == <<fmtVars, loadVars, runVars, treeVars, navVars, scanVars,
             wordVars, seoVars, substVars, rescanVars>>
notLoad  == <<fmtVars, rtVars, runVars, treeVars, navVars, scanVars,
             wordVars, seoVars, substVars, rescanVars>>
notRun   == <<fmtVars, rtVars, loadVars, treeVars, navVars, scanVars,
             wordVars, seoVars, substVars, rescanVars>>
notTree  == <<fmtVars, rtVars, loadVars, runVars, navVars, scanVars,
             wordVars, seoVars, substVars, rescanVars>>
notNav   == <<fmtVars, rtVars, loadVars, runVars, treeVars, scanVars,
             wordVars, seoVars, substVars, rescanVars>>
notScan  == <<fmtVars, rtVars, loadVars, runVars, treeVars, navVars,
             wordVars, seoVars, substVars, rescanVars>>
notWord  == <<fmtVars, rtVars, loadVars, runVars, treeVars, navVars,
             scanVars, seoVars, substVars, rescanVars>>
notSeo   == <<fmtVars, rtVars, loadVars, runVars, treeVars, navVars,
             scanVars, wordVars, substVars, rescanVars>>
notSubst == <<fmtVars, rtVars, loadVars, runVars, treeVars, navVars,
             scanVars, wordVars, seoVars, rescanVars>>
notRescan == <<fmtVars, rtVars, loadVars, runVars, treeVars, navVars,
             scanVars, wordVars, seoVars, substVars>>

-----------------------------------------------------------------------------
(* Bounds of the model                                                     *)

MaxNameLen == 4       \* longest name given to the formatter
MaxWords   == 650     \* largest word count given to calculate_reading_time
MaxLines   == 4       \* most lines of a file given to the Document Loader
MaxFiles   == 2       \* most files under the content directory in a run
MaxTreePages == 4     \* most Pages given to the Tree Builder
MaxNavDepth == 2      \* deepest page the navigation is rendered for
MaxScanFiles == 3     \* most files the Scanner finds under the content directory
MaxTextLen == 4       \* longest text given to the prefix stripper or capitaliser
MaxDescLen == 162     \* longest site description and frontmatter description
MaxScans == 2         \* most calls of generate_site on one converter
MaxTemplateLen == 3   \* most pieces of a template

-----------------------------------------------------------------------------
(* Characters and Python's str methods on them                             *)

LowerAlpha == <<"a","b","c","d","e","f","g","h","i","j","k","l","m",
                "n","o","p","q","r","s","t","u","v","w","x","y","z">>
UpperAlpha == <<"A","B","C","D","E","F","G","H","I","J","K","L","M",
                "N","O","P","Q","R","S","T","U","V","W","X","Y","Z">>

IndexIn(c, alpha) ==
    IF \E i \in 1..Len(alpha) : alpha[i] = c
    THEN CHOOSE i \in 1..Len(alpha) : alpha[i] = c
    ELSE 0

IsLowerChar(c) == IndexIn(c, LowerAlpha) > 0
IsUpperChar(c) == IndexIn(c, UpperAlpha) > 0
IsDigit(c)     == c \in {"0","1","2","3","4","5","6","7","8","9"}
IsAlnum(c)     == IsLowerChar(c) \/ IsUpperChar(c) \/ IsDigit(c)
IsSpace(c)     == c = " "

\* str.lower / str.upper on one character and on a whole string
LowerChar(c) == IF IsUpperChar(c) THEN LowerAlpha[IndexIn(c, UpperAlpha)] ELSE c
UpperChar(c) == IF IsLowerChar(c) THEN UpperAlpha[IndexIn(c, LowerAlpha)] ELSE c
lower(s) == [i \in 1..Len(s) |-> LowerChar(s[i])]
upper(s) == [i \in 1..Len(s) |-> UpperChar(s[i])]

\* str.isupper: at least one cased character and no lowercase one
isupper(s) ==
    /\ \E i \in 1..Len(s) : IsUpperChar(s[i])
    /\ \A i \in 1..Len(s) : ~IsLowerChar(s[i])

\* str.capitalize: first character upper-cased, the rest lower-cased
capitalize(s) ==
    [i \in 1..Len(s) |-> IF i = 1 THEN UpperChar(s[i]) ELSE LowerChar(s[i])]

\* str.replace(old, new) for single characters
replace(s, old, new) == [i \in 1..Len(s) |-> IF s[i] = old THEN new ELSE s[i]]

\* str.startswith
startswith(s, p) == Len(s) >= Len(p) /\ SubSeq(s, 1, Len(p)) = p

\* str.split(): the maximal runs of non-whitespace characters
RECURSIVE SplitFrom(_, _, _)
SplitFrom(text, i, cur) ==
    IF i > Len(text)
    THEN IF cur = <<>> THEN <<>> ELSE <<cur>>
    ELSE IF IsSpace(text[i])
         THEN IF cur = <<>>
              THEN SplitFrom(text, i + 1, <<>>)
              ELSE <<cur>> \o SplitFrom(text, i + 1, <<>>)
         ELSE SplitFrom(text, i + 1, Append(cur, text[i]))
split(text) == SplitFrom(text, 1, <<>>)

\* sep.join(parts)
RECURSIVE join(_, _)
join(sep, parts) ==
    IF Len(parts) = 0 THEN <<>>
    ELSE IF Len(parts) = 1 THEN parts[1]
    ELSE parts[1] \o sep \o join(sep, Tail(parts))

-----------------------------------------------------------------------------
(* DISPLAY NAME HANDLING                                                   *)

LOWERCASE_WORDS ==
    { <<"a","n","d">>, <<"o","r">>, <<"t","h","e">>, <<"a">>, <<"a","n">>,
      <<"i","n">>, <<"o","n">>, <<"a","t">>, <<"t","o">>, <<"f","o","r">>,
      <<"o","f">>, <<"w","i","t","h">> }

\* the characters of the class [\-_.\s]
IsPrefixSep(c) == c \in {"-", "_", "."} \/ IsSpace(c)

\* length of the longest run of characters satisfying a class, from index i
RECURSIVE DigitRun(_, _)
DigitRun(s, i) == IF i <= Len(s) /\ IsDigit(s[i]) THEN 1 + DigitRun(s, i + 1) ELSE 0
RECURSIVE SepRun(_, _)
SepRun(s, i) == IF i <= Len(s) /\ IsPrefixSep(s[i]) THEN 1 + SepRun(s, i + 1) ELSE 0

\* the digits removed with one separator character only
strip_number_prefix_one_sep(name) ==
    LET d == DigitRun(name, 1)
        s == SepRun(name, d + 1)
    IN  IF d >= 1 /\ s >= 1 THEN SubSeq(name, d + 2, Len(name)) ELSE name

\* re.sub(r'^\d+[\-_.\s]+', '', name)
strip_number_prefix(name) ==
    LET d == DigitRun(name, 1)
        s == SepRun(name, d + 1)
    IN  IF d >= 1 /\ s >= 1 THEN SubSeq(name, d + s + 1, Len(name)) ELSE name

\* one word, with the function words lowered before the test for an
\* all-uppercase word
CapWord_lower_first(word, i, acronyms) ==
    LET word_lower == lower(word)
    IN  IF word_lower \in acronyms THEN upper(word)
        ELSE IF i # 0 /\ word_lower \in LOWERCASE_WORDS THEN word_lower
        ELSE IF Len(word) >= 2 /\ isupper(word) THEN word
        ELSE capitalize(word)

\* one word of capitalize_with_acronyms; i is the 0-based index of the word
CapWord(word, i, acronyms) ==
    LET word_lower == lower(word)
    IN  IF word_lower \in acronyms THEN upper(word)
        ELSE IF Len(word) >= 2 /\ isupper(word) THEN word
        ELSE IF i = 0 \/ word_lower \notin LOWERCASE_WORDS THEN capitalize(word)
        ELSE word_lower

capitalize_with_acronyms(text, acronyms) ==
    LET words  == split(text)
        result == [k \in 1..Len(words) |-> CapWord(words[k], k - 1, acronyms)]
    IN  join(<<" ">>, result)

\* an empty dict of overrides
NoOverrides == [k \in {} |-> <<>>]

\* format_display_name with the capitalisation applied before the separators
\* are turned into spaces, so that "a-n" is capitalised as one word
format_display_name_capfirst(name, strip_prefix, acronyms, overrides) ==
    IF ~strip_prefix THEN name
    ELSE IF name \in DOMAIN overrides THEN overrides[name]
    ELSE LET stripped == strip_number_prefix(name)
         IN  IF stripped \in DOMAIN overrides THEN overrides[stripped]
             ELSE replace(replace(capitalize_with_acronyms(stripped, acronyms),
                                  "-", " "), "_", " ")

\* format_display_name with the override of the stripped name looked up
\* before the override of the raw name
format_display_name_stripped_first(name, strip_prefix, acronyms, overrides) ==
    IF ~strip_prefix THEN name
    ELSE LET stripped == strip_number_prefix(name)
         IN  IF stripped \in DOMAIN overrides THEN overrides[stripped]
             ELSE IF name \in DOMAIN overrides THEN overrides[name]
             ELSE capitalize_with_acronyms(
                      replace(replace(stripped, "-", " "), "_", " "), acronyms)

\* overrides is a function (dict) from names to display names
format_display_name(name, strip_prefix, acronyms, overrides) ==
    IF ~strip_prefix THEN name
    ELSE IF name \in DOMAIN overrides THEN overrides[name]
    ELSE LET stripped == strip_number_prefix(name)
         IN  IF stripped \in DOMAIN overrides THEN overrides[stripped]
             ELSE capitalize_with_acronyms(
                      replace(replace(stripped, "-", " "), "_", " "), acronyms)

-----------------------------------------------------------------------------
(* calculate_reading_time                                                  *)

\* Python's round(n / d) for integers n >= 0, d > 0: the quotient is a float
\* and round() takes it to the nearest integer, an exact half to the even one
RoundHalfEven(n, d) ==
    LET q == n \div d
        r == n % d
    IN  IF 2 * r < d THEN q
        ELSE IF 2 * r > d THEN q + 1
        ELSE IF q % 2 = 0 THEN q ELSE q + 1

Max(a, b) == IF a >= b THEN a ELSE b

WordsPerMinute == 200

\* calculate_reading_time rounding every started minute up
calculate_reading_time_ceil(words) ==
    Max(1, (words + WordsPerMinute - 1) \div WordsPerMinute)

\* words is len(content.split())
calculate_reading_time(words) == Max(1, RoundHalfEven(words, WordsPerMinute))

-----------------------------------------------------------------------------
(* Site configuration (self.config), read-only during a run                *)

ConfigStripPrefix == TRUE                      \* ui.strip_number_prefix
ConfigAcronyms    == { <<"a","p","i">> }       \* formatting.acronyms
ConfigOverrides   == NoOverrides               \* formatting.display_name_overrides

-----------------------------------------------------------------------------
(* Paths.  A path relative to the content directory is its sequence of     *)
(* parts; the last part is the file name.                                  *)

\* pathlib's suffix: from the last "." of the name, when that dot is neither
\* the first nor the last character
RECURSIVE LastDot(_, _)
LastDot(name, i) ==
    IF i = 0 THEN 0 ELSE IF name[i] = "." THEN i ELSE LastDot(name, i - 1)

SuffixStart(name) ==
    LET i == LastDot(name, Len(name))
    IN  IF i > 1 /\ i < Len(name) THEN i ELSE 0

\* PurePath.stem
stem(name) ==
    IF SuffixStart(name) = 0 THEN name ELSE SubSeq(name, 1, SuffixStart(name) - 1)

\* PurePath.with_suffix(suffix) applied to the last part
with_suffix(parts, suffix) ==
    [parts EXCEPT ![Len(parts)] = stem(parts[Len(parts)]) \o suffix]

\* str(path) on POSIX: the parts joined by "/"
PathStr(parts) == join(<<"/">>, parts)

None == [none |-> TRUE]

-----------------------------------------------------------------------------
(* File contents.  A readable file is a sequence of lines, each line a     *)
(* sequence of characters (the text is the lines joined by "\n").          *)

LnDelim    == <<"-","-","-">>                               \* ---
LnTitle    == <<"t","i","t","l","e",":"," ","T">>           \* title: T
LnItem     == <<"-"," ","x">>                               \* - x
LnBroken   == <<"k",":"," ","[">>                           \* k: [
LnText     == <<"t","e","x","t">>                           \* text
LnPctTitle == <<"%"," ","T","i","t","l","e",":"," ","P">>   \* % Title: P
LnPctNote  == <<"%"," ","n">>                               \* % n
LnPctKey   == <<"%","A"," ","b",":","c">>                       \* %A b:c
LnBlank    == <<>>                                              \* an empty line

Unreadable == [readable |-> FALSE, lines |-> <<>>]
Text(lines) == [readable |-> TRUE, lines |-> lines]

\* index of the first occurrence of character c in s from position i, or 0
RECURSIVE Find(_, _, _)
Find(s, c, i) ==
    IF i > Len(s) THEN 0 ELSE IF s[i] = c THEN i ELSE Find(s, c, i + 1)

\* str.strip(): leading and trailing whitespace removed
RECURSIVE LStrip(_)
LStrip(s) == IF Len(s) > 0 /\ IsSpace(s[1]) THEN LStrip(Tail(s)) ELSE s
RECURSIVE RStrip(_)
RStrip(s) ==
    IF Len(s) > 0 /\ IsSpace(s[Len(s)]) THEN RStrip(SubSeq(s, 1, Len(s) - 1)) ELSE s
strip(s) == RStrip(LStrip(s))

\* index of the first line equal to the "---" delimiter from line i, or 0
RECURSIVE FindDelim(_, _)
FindDelim(lines, i) ==
    IF i > Len(lines) THEN 0
    ELSE IF lines[i] = LnDelim THEN i ELSE FindDelim(lines, i + 1)

\* yaml.safe_load on the lines of a header block: a mapping when every line
\* is "key: value", a list when the block starts with "- item", a string when
\* it is plain text, None when it is empty; an unclosed "[" or a mix of
\* mapping lines with other lines is a YAML error
IsYamlBroken(line)  == Find(line, "[", 1) > 0
IsYamlItem(line)    == startswith(line, <<"-"," ">>)
IsYamlMapping(line) ==
    ~IsYamlItem(line) /\ Find(line, ":", 1) > 1 /\ ~IsYamlBroken(line)

YamlKey(line)   == SubSeq(line, 1, Find(line, ":", 1) - 1)
YamlValue(line) == strip(SubSeq(line, Find(line, ":", 1) + 1, Len(line)))

RECURSIVE YamlDict(_)
YamlDict(lines) ==
    IF lines = <<>> THEN [k \in {} |-> <<>>]
    ELSE LET rest == YamlDict(SubSeq(lines, 1, Len(lines) - 1))
             last == lines[Len(lines)]
         IN  [k \in DOMAIN rest \cup {YamlKey(last)} |->
                 IF k = YamlKey(last) THEN YamlValue(last) ELSE rest[k]]

yaml_safe_load(lines) ==
    IF lines = <<>> THEN [t |-> "none"]
    ELSE IF \E i \in 1..Len(lines) : IsYamlBroken(lines[i]) THEN [t |-> "raise"]
    ELSE IF \A i \in 1..Len(lines) : IsYamlMapping(lines[i])
         THEN [t |-> "dict", d |-> YamlDict(lines)]
    ELSE IF \E i \in 1..Len(lines) : IsYamlMapping(lines[i]) THEN [t |-> "raise"]
    ELSE IF IsYamlItem(lines[1]) THEN [t |-> "list"]
    ELSE [t |-> "str"]

EmptyDict == [t |-> "dict", d |-> [k \in {} |-> <<>>]]

\* str.strip() on a text of several lines: the lines of whitespace at either
\* end go, and so does the whitespace at the ends of what remains
RECURSIVE DropBlankHead(_)
DropBlankHead(lines) ==
    IF lines # <<>> /\ strip(lines[1]) = <<>> THEN DropBlankHead(Tail(lines))
    ELSE lines
RECURSIVE DropBlankTail(_)
DropBlankTail(lines) ==
    IF lines # <<>> /\ strip(lines[Len(lines)]) = <<>>
    THEN DropBlankTail(SubSeq(lines, 1, Len(lines) - 1))
    ELSE lines
StripLines(lines) ==
    LET kept == DropBlankTail(DropBlankHead(lines))
    IN  IF Len(kept) <= 1 THEN [i \in 1..Len(kept) |-> strip(kept[i])]
        ELSE <<LStrip(kept[1])>> \o SubSeq(kept, 2, Len(kept) - 1)
             \o <<RStrip(kept[Len(kept)])>>

\* the header that ends after its first line
PctRun_first(lines, i) == 1

\* the "% Key: Value" header: the leading run of lines starting with "%"
RECURSIVE PctRun(_, _)
PctRun(lines, i) ==
    IF i <= Len(lines) /\ startswith(lines[i], <<"%">>)
    THEN 1 + PctRun(lines, i + 1) ELSE 0

RECURSIVE PctDict(_)
PctDict(lines) ==
    IF lines = <<>> THEN [k \in {} |-> <<>>]
    ELSE LET rest         == PctDict(SubSeq(lines, 1, Len(lines) - 1))
             line_content == strip(Tail(lines[Len(lines)]))
             c            == Find(line_content, ":", 1)
             key          == replace(lower(strip(SubSeq(line_content, 1, c - 1))),
                                     " ", "_")
             value        == strip(SubSeq(line_content, c + 1, Len(line_content)))
         IN  IF c = 0 THEN rest
             ELSE [k \in DOMAIN rest \cup {key} |-> IF k = key THEN value ELSE rest[k]]

\* parse_frontmatter: the pair (frontmatter, markdown_content)
parse_frontmatter(lines) ==
    IF lines # <<>> /\ startswith(lines[1], LnDelim)
    THEN LET close  == FindDelim(lines, 2)
             loaded == yaml_safe_load(SubSeq(lines, 2, close - 1))
         IN  IF close = 0 \/ loaded.t = "raise"
             THEN [frontmatter |-> EmptyDict, markdown_content |-> lines]
             ELSE [frontmatter      |-> IF loaded.t = "none" THEN EmptyDict ELSE loaded,
                   markdown_content |->
                       StripLines(SubSeq(lines, close + 1, Len(lines)))]
    ELSE IF lines # <<>> /\ startswith(lines[1], <<"%">>)
    THEN LET n == PctRun(lines, 1)
         IN  [frontmatter      |-> [t |-> "dict", d |-> PctDict(SubSeq(lines, 1, n))],
              markdown_content |-> StripLines(SubSeq(lines, n + 1, Len(lines)))]
    ELSE [frontmatter |-> EmptyDict, markdown_content |-> lines]

\* dict.get(key) with a default
Get(d, key, default) == IF key \in DOMAIN d THEN d[key] ELSE default

KeyDisplayName == <<"d","i","s","p","l","a","y","_","n","a","m","e">>
KeyTitle       == <<"t","i","t","l","e">>
KeyIcon        == <<"i","c","o","n">>

\* len(content.split()) of a body
RECURSIVE WordCount(_)
WordCount(lines) ==
    IF lines = <<>> THEN 0 ELSE Len(split(lines[1])) + WordCount(Tail(lines))

\* get_page_hierarchy
get_page_hierarchy(relative_path) ==
    LET parts  == SubSeq(relative_path, 1, Len(relative_path) - 1)
        levels == [i \in 1..Len(parts) |->
                      format_display_name(parts[i], ConfigStripPrefix,
                                          ConfigAcronyms, ConfigOverrides)]
    IN  [levels_raw |-> parts,
         levels     |-> levels,
         category   |-> IF levels # <<>> THEN join(<<" ",">"," ">>, levels)
                        ELSE <<"G","e","n","e","r","a","l">>,
         depth      |-> Len(levels)]

generate_page_id(relative_path) ==
    replace(replace(PathStr(with_suffix(relative_path, <<>>)), "/", "-"), "\\", "-")

\* generate_page_url with the number prefixes of the parts stripped, as the
\* display names are
generate_page_url_stripped(relative_path) ==
    replace(PathStr(with_suffix([i \in 1..Len(relative_path) |->
                                    strip_number_prefix(relative_path[i])],
                                <<".","h","t","m","l">>)), "\\", "/")

generate_page_url(relative_path) ==
    replace(PathStr(with_suffix(relative_path, <<".","h","t","m","l">>)), "\\", "/")

\* process_markdown_file: the page of a file, or None when anything raised
process_markdown_file(relative_path, text) ==
    IF ~text.readable THEN None
    ELSE LET parsed      == parse_frontmatter(text.lines)
             frontmatter == parsed.frontmatter
             hierarchy   == get_page_hierarchy(relative_path)
         IN  IF frontmatter.t # "dict" THEN None
             ELSE LET display_name == Get(frontmatter.d, KeyDisplayName, <<>>)
                      title        == Get(frontmatter.d, KeyTitle, <<>>)
                  IN  [id            |-> generate_page_id(relative_path),
                       url           |-> generate_page_url(relative_path),
                       title         |-> IF display_name # <<>> THEN display_name
                                         ELSE IF title # <<>> THEN title
                                         ELSE format_display_name(
                                                  stem(relative_path[Len(relative_path)]),
                                                  ConfigStripPrefix, ConfigAcronyms,
                                                  ConfigOverrides),
                       icon          |-> Get(frontmatter.d, KeyIcon, <<>>),
                       levels_raw    |-> hierarchy.levels_raw,
                       levels        |-> hierarchy.levels,
                       depth         |-> hierarchy.depth,
                       category      |-> hierarchy.category,
                       html_content  |-> [md |-> parsed.markdown_content],
                       reading_time  |->
                           calculate_reading_time(WordCount(parsed.markdown_content)),
                       relative_path |-> relative_path,
                       frontmatter   |-> frontmatter.d]

-----------------------------------------------------------------------------
(* Content Scanner                                                         *)

\* the characters of the model in code point order
AsciiOrder == <<" ", "%", "-", ".", "/",
                "0","1","2","3","4","5","6","7","8","9", ":", "=", ">",
                "A","B","C","D","E","F","G","H","I","J","K","L","M",
                "N","O","P","Q","R","S","T","U","V","W","X","Y","Z",
                "[", "\\", "_",
                "a","b","c","d","e","f","g","h","i","j","k","l","m",
                "n","o","p","q","r","s","t","u","v","w","x","y","z">>

Code(c) == IndexIn(c, AsciiOrder)

CharLess(c, d) == Code(c) < Code(d)

\* a < b for two strings: character by character, a proper prefix is smaller
RECURSIVE StrLess(_, _)
StrLess(a, b) ==
    IF b = <<>> THEN FALSE
    ELSE IF a = <<>> THEN TRUE
    ELSE IF CharLess(a[1], b[1]) THEN TRUE
    ELSE IF CharLess(b[1], a[1]) THEN FALSE
    ELSE StrLess(Tail(a), Tail(b))

\* the order of Path objects: part by part
RECURSIVE PathLess(_, _)
PathLess(p, q) ==
    IF q = <<>> THEN FALSE
    ELSE IF p = <<>> THEN TRUE
    ELSE IF StrLess(p[1], q[1]) THEN TRUE
    ELSE IF StrLess(q[1], p[1]) THEN FALSE
    ELSE PathLess(Tail(p), Tail(q))

\* sorted(md_files)
RECURSIVE sorted(_)
sorted(S) ==
    IF S = {} THEN <<>>
    ELSE LET first == CHOOSE f \in S : \A g \in S \ {f} : PathLess(f, g)
         IN  <<first>> \o sorted(S \ {first})

\* paths.exclude_folders, its default
ExcludeFolders ==
    { <<".","t","r","a","s","h">>, <<".","o","b","s","i","d","i","a","n">>,
      <<".","g","i","t">>, <<"_","_","p","y","c","a","c","h","e","_","_">>,
      <<"n","o","d","e","_","m","o","d","u","l","e","s">> }

\* the parts of the content directory itself
ContentDir == << <<"d","o","c","s">> >>

\* str.strip(chars)
RECURSIVE LStripChars(_, _)
LStripChars(s, chars) ==
    IF Len(s) > 0 /\ s[1] \in chars THEN LStripChars(Tail(s), chars) ELSE s
RECURSIVE RStripChars(_, _)
RStripChars(s, chars) ==
    IF Len(s) > 0 /\ s[Len(s)] \in chars
    THEN RStripChars(SubSeq(s, 1, Len(s) - 1), chars) ELSE s

\* is_valid_name without the removal of the extension
is_valid_name_keep_ext(name) ==
    LET stripped == RStripChars(LStripChars(name, {"-", "_", "=", ".", " "}),
                                {"-", "_", "=", ".", " "})
    IN  stripped # <<>> /\ \E i \in 1..Len(stripped) : IsAlnum(stripped[i])

is_valid_name(name) ==
    LET dot              == LastDot(name, Len(name))
        name_without_ext == IF dot > 0 THEN SubSeq(name, 1, dot - 1) ELSE name
        stripped         == RStripChars(LStripChars(name_without_ext,
                                                    {"-", "_", "=", ".", " "}),
                                        {"-", "_", "=", ".", " "})
    IN  stripped # <<>> /\ \E i \in 1..Len(stripped) : IsAlnum(stripped[i])

endswith(s, p) == Len(s) >= Len(p) /\ SubSeq(s, Len(s) - Len(p) + 1, Len(s)) = p

IndexMd == <<"i","n","d","e","x",".","m","d">>

\* the exclusion list looked up for the first folder only
is_excluded_top_only(parts) ==
    Len(parts) > Len(ContentDir) /\ parts[Len(ContentDir) + 1] \in ExcludeFolders

\* any(excluded in f.parts for excluded in exclude_folders)
is_excluded(parts) == \E i \in 1..Len(parts) : parts[i] \in ExcludeFolders

\* the files content_dir.rglob('*.md') yields that the filters of
\* scan_directory let through
md_files(files) ==
    { f \in files :
        /\ endswith(f[Len(f)], <<".","m","d">>)
        /\ f[Len(f)] # IndexMd
        /\ ~is_excluded(ContentDir \o f)
        /\ is_valid_name(stem(f[Len(f)]))
        /\ \A i \in 1..(Len(f) - 1) : is_valid_name(f[i]) }

General == <<"G","e","n","e","r","a","l">>

\* self.categories is a dict: a sequence of (key, pages) in insertion order
HasKey(cats, key) == \E i \in 1..Len(cats) : cats[i].key = key
KeyIndex(cats, key) == CHOOSE i \in 1..Len(cats) : cats[i].key = key

Categorize(cats, page_data) ==
    LET level1 == IF page_data.levels_raw # <<>> THEN page_data.levels_raw[1]
                  ELSE General
        with   == IF HasKey(cats, level1) THEN cats
                  ELSE Append(cats, [key |-> level1, pages |-> <<>>])
    IN  [with EXCEPT ![KeyIndex(with, level1)].pages = Append(@, page_data)]

\* the loop of scan_directory over the sorted files, stopping at the first
\* file that yields no page
RECURSIVE scan_files_abort(_, _, _)
scan_files_abort(files, contents, acc) ==
    IF files = <<>> THEN acc
    ELSE LET page_data == process_markdown_file(files[1], contents[files[1]])
         IN  IF page_data = None THEN acc
             ELSE scan_files_abort(Tail(files), contents,
                      [pages      |-> Append(acc.pages, page_data),
                       categories |-> Categorize(acc.categories, page_data)])

\* the loop of scan_directory over the sorted files; acc holds the pages so
\* far and self.categories
RECURSIVE scan_files(_, _, _)
scan_files(files, contents, acc) ==
    IF files = <<>> THEN acc
    ELSE LET page_data == process_markdown_file(files[1], contents[files[1]])
         IN  scan_files(Tail(files), contents,
                 IF page_data = None THEN acc
                 ELSE [pages      |-> Append(acc.pages, page_data),
                       categories |-> Categorize(acc.categories, page_data)])

\* the filters of scan_directory applied to the files in the order in which
\* content_dir.rglob('*.md') yields them
rglob_filter(enum) == SelectSeq(enum, LAMBDA f : f \in md_files({f}))

\* the files left as they were enumerated
sorted_paths_asis(enum) == enum

\* sorted(md_files) on the list of the accepted files: a stable sort by the
\* order of Path objects
RECURSIVE InsertPath(_, _)
InsertPath(sq, f) ==
    IF sq = <<>> THEN <<f>>
    ELSE IF PathLess(f, sq[1]) THEN <<f>> \o sq
    ELSE <<sq[1]>> \o InsertPath(Tail(sq), f)

RECURSIVE SortPathsFrom(_, _)
SortPathsFrom(acc, enum) ==
    IF enum = <<>> THEN acc
    ELSE SortPathsFrom(InsertPath(acc, enum[1]), Tail(enum))

sorted_paths(enum) == SortPathsFrom(<<>>, enum)

\* scan_directory of an existing directory whose files are enumerated in
\* the order enum
scan_enumerated(enum, contents, cats) ==
    scan_files(sorted_paths(rglob_filter(enum)), contents,
               [pages |-> <<>>, categories |-> cats])

\* scan_directory: the pages, and self.categories after it
scan_directory(exists, files, contents, cats) ==
    IF ~exists THEN [pages |-> <<>>, categories |-> cats]
    ELSE scan_files(sorted(md_files(files)), contents,
                    [pages |-> <<>>, categories |-> cats])

-----------------------------------------------------------------------------
(* Hierarchy/Tree Builder: build_tree of generate_navigation_html_for_depth *)
(*                                                                         *)
(* The tree is a Python dict whose keys are raw folder names and the two   *)
(* reserved keys '__display__' and '__pages__', all in one key space.  A   *)
(* value is a dict (a node), a list of pages or a string, tagged by t.     *)

KeyPages   == <<"_","_","p","a","g","e","s","_","_">>         \* '__pages__'
KeyDisplay == <<"_","_","d","i","s","p","l","a","y","_","_">> \* '__display__'

PyDict(items) == [t |-> "dict", items |-> items]
PyList(elems) == [t |-> "list", elems |-> elems]
PyStr(chars)  == [t |-> "str", chars |-> chars]
TreeError     == [t |-> "error"]

EmptyTree == PyDict([k \in {} |-> TreeError])

\* d[key] = value on a dict
SetItem(d, key, value) ==
    PyDict([k \in DOMAIN d.items \cup {key} |->
               IF k = key THEN value ELSE d.items[k]])

\* the node a fresh folder gets: {'__display__': levels[i], '__pages__': []}
NewNode(display) ==
    PyDict((KeyDisplay :> PyStr(display)) @@ (KeyPages :> PyList(<<>>)))

\* the child always created anew, whether or not the key is present
TreeChild_fresh(current, level_raw, display) == NewNode(display)

\* current[level_raw], created first when level_raw is not in current
TreeChild(current, level_raw, display) ==
    IF level_raw \in DOMAIN current.items THEN current.items[level_raw]
    ELSE NewNode(display)

\* the walk of one page down levels_raw[i..], then the append to the leaf's
\* '__pages__'; TreeError when a step raises (the value walked into is a list
\* or a string, not a dict)
RECURSIVE InsertAt(_, _, _)
InsertAt(current, page, i) ==
    LET level_raw == page.levels_raw[i]
        child     == TreeChild(current, level_raw, page.levels[i])
    IN  IF child.t # "dict" THEN TreeError
        ELSE IF i = Len(page.levels_raw)
        THEN IF KeyPages \in DOMAIN child.items /\ child.items[KeyPages].t = "list"
             THEN SetItem(current, level_raw,
                      SetItem(child, KeyPages,
                              PyList(Append(child.items[KeyPages].elems, page))))
             ELSE TreeError
        ELSE LET below == InsertAt(child, page, i + 1)
             IN  IF below = TreeError THEN TreeError
                 ELSE SetItem(current, level_raw, below)

\* one iteration of build_tree's loop
AddPage(tr, page) ==
    IF tr = TreeError THEN TreeError
    ELSE IF page.levels_raw = <<>>
    THEN LET with == IF KeyPages \in DOMAIN tr.items THEN tr
                     ELSE SetItem(tr, KeyPages, PyList(<<>>))
         IN  IF with.items[KeyPages].t = "list"
             THEN SetItem(with, KeyPages,
                          PyList(Append(with.items[KeyPages].elems, page)))
             ELSE TreeError
    ELSE InsertAt(tr, page, 1)

RECURSIVE BuildFrom(_, _)
BuildFrom(tr, pages) ==
    IF pages = <<>> THEN tr ELSE BuildFrom(AddPage(tr, pages[1]), Tail(pages))

build_tree(pages) == BuildFrom(EmptyTree, pages)

-----------------------------------------------------------------------------
(* Navigation Renderer: generate_navigation_html_for_depth.  The HTML is   *)
(* the sequence of its elements: the header of a folder, the links of its  *)
(* pages, the closing tags of the folder.                                  *)

\* what the call gives: the elements of the HTML, or an exception
NavHtml(items) == [raised |-> FALSE, items |-> items]
NavError       == [raised |-> TRUE, items |-> <<>>]

Dunder == <<"_","_">>

\* str.replace(old, new) where new is a string
RECURSIVE replace_by(_, _, _)
replace_by(s, old, new) ==
    IF s = <<>> THEN <<>>
    ELSE (IF s[1] = old THEN new ELSE <<s[1]>>) \o replace_by(Tail(s), old, new)

\* raw.lower().replace(' ', '-').replace('&', 'and')
ElementId(raw) == replace_by(replace(lower(raw), " ", "-"), "&", <<"a","n","d">>)

\* the keys of sorted(node.items()) that do not start with '__'
RECURSIVE SortedKeys(_)
SortedKeys(S) ==
    IF S = {} THEN <<>>
    ELSE LET first == CHOOSE k \in S : \A g \in S \ {k} : StrLess(k, g)
         IN  <<first>> \o SortedKeys(S \ {first})

Subfolders(node) ==
    SortedKeys({k \in DOMAIN node.items : ~startswith(k, Dunder)})

\* sorted(pages, key=lambda p: p['title']): a stable sort
RECURSIVE InsertByTitle(_, _)
InsertByTitle(sq, p) ==
    IF sq = <<>> THEN <<p>>
    ELSE IF StrLess(p.title, sq[1].title) THEN <<p>> \o sq
    ELSE <<sq[1]>> \o InsertByTitle(Tail(sq), p)

RECURSIVE SortedByTitleFrom(_, _)
SortedByTitleFrom(acc, pages) ==
    IF pages = <<>> THEN acc
    ELSE SortedByTitleFrom(InsertByTitle(acc, pages[1]), Tail(pages))

\* the pages in the order the tree holds them
sorted_by_title_asis(pages) == pages

sorted_by_title(pages) == SortedByTitleFrom(<<>>, pages)

\* '../' * n
RECURSIVE Repeat(_, _)
Repeat(s, n) == IF n <= 0 THEN <<>> ELSE s \o Repeat(s, n - 1)

DotDotSlash == <<".",".","/">>

\* the prefix with one '../' whatever the depth
nav_prefix_once(depth) == IF depth > 0 THEN DotDotSlash ELSE <<>>

\* prefix = '../' * depth if depth > 0 else ''
nav_prefix(depth) == IF depth > 0 THEN Repeat(DotDotSlash, depth) ELSE <<>>

\* the opening of a collapsible section; source is the raw key it is made for
NavHeader(kind, id, display, level_depth, raw) ==
    [kind |-> kind, id |-> id, text |-> display, href |-> <<>>,
     level |-> level_depth, source |-> <<raw>>]

NavClose(kind, id, level_depth) ==
    [kind |-> kind, id |-> id, text |-> <<>>, href |-> <<>>,
     level |-> level_depth, source |-> <<>>]

\* <a href="{page_url}" ... data-page="{page['id']}">{page['title']}</a>
NavLink(page, url_prefix, level_depth) ==
    [kind |-> "link", id |-> page.id, text |-> page.title,
     href |-> url_prefix \o page.url,
     level |-> level_depth, source |-> page.relative_path]

NavLinks(pages, url_prefix, level_depth) ==
    [i \in 1..Len(pages) |-> NavLink(pages[i], url_prefix, level_depth)]

\* render_sublevel: the subfolders in key order, each with its own
\* sublevel, then the pages of the node in title order
RECURSIVE render_sublevel(_, _, _, _)
RECURSIVE RenderFolders(_, _, _, _, _)
RenderFolders(node, keys, parent_id, level_depth, url_prefix) ==
    IF keys = <<>> THEN <<>>
    ELSE LET folder_raw     == keys[1]
             folder_data    == node.items[folder_raw]
             folder_display == IF KeyDisplay \in DOMAIN folder_data.items
                               THEN folder_data.items[KeyDisplay].chars
                               ELSE folder_raw
             folder_id      == parent_id \o <<"-">> \o ElementId(folder_raw)
             kind           == IF level_depth = 1 THEN "subcategory" ELSE "deep"
         IN  <<NavHeader(kind, folder_id, folder_display, level_depth, folder_raw)>>
             \o render_sublevel(folder_data, folder_id, level_depth + 1, url_prefix)
             \o <<NavClose(IF level_depth = 1 THEN "end-subcategory" ELSE "end-deep",
                           folder_id, level_depth)>>
             \o RenderFolders(node, Tail(keys), parent_id, level_depth, url_prefix)

render_sublevel(node, parent_id, level_depth, url_prefix) ==
    RenderFolders(node, Subfolders(node), parent_id, level_depth, url_prefix)
    \o NavLinks(sorted_by_title(IF KeyPages \in DOMAIN node.items
                                THEN node.items[KeyPages].elems ELSE <<>>),
                url_prefix, level_depth)

\* the loop over the top-level categories
RECURSIVE RenderCategories(_, _, _)
RenderCategories(tr, keys, prefix) ==
    IF keys = <<>> THEN <<>>
    ELSE LET level1_raw     == keys[1]
             level1_data    == tr.items[level1_raw]
             level1_id      == ElementId(level1_raw)
             level1_display == IF KeyDisplay \in DOMAIN level1_data.items
                               THEN level1_data.items[KeyDisplay].chars
                               ELSE level1_raw
         IN  <<NavHeader("category", level1_id, level1_display, 0, level1_raw)>>
             \o render_sublevel(level1_data, level1_id, 1, prefix)
             \o <<NavClose("end-category", level1_id, 0)>>
             \o RenderCategories(tr, Tail(keys), prefix)

\* generate_navigation_html_for_depth; NavError when build_tree raises, or
\* when sorting the root pages does (tree['__pages__'] is the node of a
\* folder of that name, whose keys have no 'title')
generate_navigation_html_for_depth(pages, depth) ==
    LET tr     == build_tree(pages)
        prefix == nav_prefix(depth)
    IN  IF tr = TreeError THEN NavError
        ELSE IF KeyPages \in DOMAIN tr.items /\ tr.items[KeyPages].t # "list"
        THEN NavError
        ELSE NavHtml(RenderCategories(tr, Subfolders(tr), prefix)
                     \o NavLinks(sorted_by_title(
                                     IF KeyPages \in DOMAIN tr.items
                                     THEN tr.items[KeyPages].elems ELSE <<>>),
                                 prefix, 0))

-----------------------------------------------------------------------------
(* Page Renderer: generate_page, generate_index and generate_static_pages. *)
(* A breadcrumb is the sequence of its segments.  The replacement mapping  *)
(* of a page is a function from placeholder tokens to values; a value that *)
(* no property looks into is the name of the expression that computes it.  *)

SiteName == <<"D","o","c","s">>

Html(name) == name \o <<".","h","t","m","l">>
IndexHtml  == Html(<<"i","n","d","e","x">>)

Str(chars) == [t |-> "str", chars |-> chars]
Expr(name) == [t |-> "expr", name |-> name]

\* html.escape
html_escape(text) ==
    replace_by(replace_by(replace_by(replace_by(replace_by(text,
        "&", <<"&","a","m","p",";">>),
        "<", <<"&","l","t",";">>),
        ">", <<"&","g","t",";">>),
        "\"", <<"&","q","u","o","t",";">>),
        "'", <<"&","#","x","2","7",";">>)

Segment(kind, text, href) == [kind |-> kind, text |-> text, href |-> href]

\* the breadcrumb with the raw folder names for the levels
generate_breadcrumb_html_raw(page, home_url) ==
    <<Segment("home-link", html_escape(SiteName), home_url)>>
    \o [i \in 1..Len(page.levels_raw) |->
           Segment("level", html_escape(page.levels_raw[i]), <<>>)]
    \o <<Segment("page", html_escape(page.title), <<>>)>>

\* generate_breadcrumb_html: the home link, one span per entry of
\* page['levels'], the span of the page title
generate_breadcrumb_html(page, home_url) ==
    <<Segment("home-link", html_escape(SiteName), home_url)>>
    \o [i \in 1..Len(page.levels) |->
           Segment("level", html_escape(page.levels[i]), <<>>)]
    \o <<Segment("page", html_escape(page.title), <<>>)>>

DotIndexHtml == <<".","/","i","n","d","e","x",".","h","t","m","l">>
AssetsDir    == <<"a","s","s","e","t","s","/">>

\* the breadcrumb of generate_index_content, with or without an index.md
IndexBreadcrumb == <<Segment("home", html_escape(SiteName), <<>>)>>

\* the breadcrumb of a static page: the home link and the title
StaticBreadcrumb(title) ==
    <<Segment("home-link", html_escape(SiteName), DotIndexHtml),
      Segment("category", html_escape(title), <<>>)>>

\* str.title: a letter is upper-cased after a non-letter, lower-cased after
\* a letter
str_title(text) ==
    [i \in 1..Len(text) |->
        IF i = 1 \/ ~(IsLowerChar(text[i - 1]) \/ IsUpperChar(text[i - 1]))
        THEN UpperChar(text[i]) ELSE LowerChar(text[i])]

\* title = frontmatter.get('title', md_file.stem.replace('-', ' ').title())
StaticTitle(md_file, frontmatter) ==
    Get(frontmatter, KeyTitle, str_title(replace(stem(md_file), "-", " ")))

\* the part count taken for the depth
page_depth_parts(relative_path) == Len(relative_path)

\* depth = len(relative_parts) - 1
page_depth(relative_path) == Len(relative_path) - 1

UpUrl(depth, name) ==
    IF depth > 0 THEN Repeat(DotDotSlash, depth) \o name ELSE <<".","/">> \o name

\* get_seo_replacements
get_seo_replacements(page_type) ==
    ("{{PAGE_TITLE}}" :> Expr("generate_page_title"))
    @@ ("{{META_DESCRIPTION}}" :> Expr("generate_meta_description"))
    @@ ("{{META_KEYWORDS}}" :> Expr("generate_meta_keywords"))
    @@ ("{{CANONICAL_URL}}" :> Expr("generate_canonical_url"))
    @@ ("{{OG_TITLE}}" :> Expr("title"))
    @@ ("{{OG_IMAGE_URL}}" :> Expr("generate_og_image_url"))
    @@ ("{{JSON_LD}}" :> Expr("generate_json_ld"))

\* the entries the three mappings build in the same way
CommonReplacements ==
    ("{{SITE_NAME}}" :> Str(SiteName))
    @@ ("{{SITE_DESCRIPTION}}" :> Expr("description"))
    @@ ("{{DYNAMIC_PAGE_DATA}}" :> Expr("site_config_js + page_data_js + currentPageId"))
    @@ ("{{GENERATION_DATE}}" :> Expr("generation_date"))
    @@ ("{{CURRENT_YEAR}}" :> Expr("current_year"))
    @@ ("{{SITE_NAME_INITIAL}}" :> Expr("site_name_initial"))
    @@ ("{{TOTAL_PAGES}}" :> Expr("len(all_pages)"))
    @@ ("{{TOTAL_CATEGORIES}}" :> Expr("len(categories)"))
    @@ ("{{CONTRIBUTE_BUTTON}}" :> Expr("generate_contribute_button"))
    @@ ("{{CONTRIBUTE_FOOTER_LINK}}" :> Expr("generate_contribute_footer_link"))
    @@ ("{{GITHUB_URL}}" :> Expr("github_url"))
    @@ ("{{RECENT_SECTION}}" :> Expr("generate_recent_section"))
    @@ ("{{BOOKMARKS_SECTION}}" :> Expr("generate_bookmarks_section"))
    @@ ("{{FOOTER_BOTTOM}}" :> Expr("generate_footer_bottom"))

\* the mapping of generate_index without its SEO entries
IndexReplacements_noseo(navigation_html) ==
    CommonReplacements
    @@ ("{{NAVIGATION_HTML}}" :> navigation_html)
    @@ ("{{DYNAMIC_CONTENT_PLACEHOLDER}}" :> [t |-> "content", breadcrumb |-> IndexBreadcrumb])
    @@ ("{{HOME_URL}}" :> Str(DotIndexHtml))
    @@ ("{{ASSETS_PATH}}" :> Str(AssetsDir))
    @@ ("{{CONTRIBUTE_URL}}" :> Expr("ui.contribute_url"))
    @@ ("{{ABOUT_URL}}" :> Str(UpUrl(0, Html(<<"a","b","o","u","t">>))))

\* replacements of generate_index
IndexReplacements(navigation_html) ==
    IndexReplacements_noseo(navigation_html) @@ get_seo_replacements("index")

\* replacements of generate_page
PageReplacements(page, depth, navigation_html) ==
    CommonReplacements
    @@ ("{{NAVIGATION_HTML}}" :> navigation_html)
    @@ ("{{DYNAMIC_CONTENT_PLACEHOLDER}}" :>
            [t |-> "content",
             breadcrumb |-> generate_breadcrumb_html(page, UpUrl(depth, IndexHtml))])
    @@ ("{{HOME_URL}}" :> Str(UpUrl(depth, IndexHtml)))
    @@ ("{{ASSETS_PATH}}" :> Str(IF depth > 0 THEN Repeat(DotDotSlash, depth) \o AssetsDir
                                 ELSE AssetsDir))
    @@ ("{{CONTRIBUTE_URL}}" :> Str(UpUrl(depth, Html(<<"c","o","n","t","r","i","b","u","t","e">>))))
    @@ ("{{ABOUT_URL}}" :> Str(UpUrl(depth, Html(<<"a","b","o","u","t">>))))
    @@ get_seo_replacements("content")

\* replacements of generate_static_pages
StaticReplacements(title, navigation_html) ==
    CommonReplacements
    @@ ("{{NAVIGATION_HTML}}" :> navigation_html)
    @@ ("{{DYNAMIC_CONTENT_PLACEHOLDER}}" :>
            [t |-> "content", breadcrumb |-> StaticBreadcrumb(title)])
    @@ ("{{HOME_URL}}" :> Str(DotIndexHtml))
    @@ ("{{ASSETS_PATH}}" :> Str(AssetsDir))
    @@ ("{{CONTRIBUTE_URL}}" :> Str(UpUrl(0, Html(<<"c","o","n","t","r","i","b","u","t","e">>))))
    @@ ("{{ABOUT_URL}}" :> Str(UpUrl(0, Html(<<"a","b","o","u","t">>))))
    @@ get_seo_replacements("static")

-----------------------------------------------------------------------------
(* Specification SpecFmt: the Name Formatter applied to a name, and then   *)
(* to its own result                                                       *)

FmtChars == {"1", "-", ".", " ", "a", "n", "A"}

RECURSIVE SeqsUpTo(_, _)
SeqsUpTo(S, n) ==
    IF n = 0 THEN {<<>>}
    ELSE LET shorter == SeqsUpTo(S, n - 1)
         IN  shorter \cup {Append(s, c) : s \in {t \in shorter : Len(t) = n - 1}, c \in S}

FmtNames == SeqsUpTo(FmtChars, MaxNameLen)

\* an override for a raw name and another for the same name stripped
BothOverrides == (<<"1","-","a">> :> <<"n">>) @@ (<<"a">> :> <<"A"," ","n">>)

\* (ui.strip_number_prefix, acronym set, override map) of the configuration
FmtConfigs ==
    { [strip |-> TRUE,  acr |-> {},             ovr |-> NoOverrides],
      [strip |-> TRUE,  acr |-> {<<"n","a">>},  ovr |-> NoOverrides],
      [strip |-> TRUE,  acr |-> {<<"a","n">>},  ovr |-> (<<"a">> :> <<"1","-","n">>)],
      [strip |-> TRUE,  acr |-> {},             ovr |-> (<<"n">> :> <<"a"," ","n">>)],
      [strip |-> TRUE,  acr |-> {},             ovr |-> BothOverrides],
      [strip |-> FALSE, acr |-> {<<"a","n">>},  ovr |-> BothOverrides] }

FmtIdle ==
    /\ fname = <<>> /\ fstrip = TRUE /\ facr = {} /\ fovr = NoOverrides
    /\ fout = <<>> /\ fout2 = <<>> /\ fstage = 0

FmtInit ==
    /\ fname \in FmtNames
    /\ \E c \in FmtConfigs : fstrip = c.strip /\ facr = c.acr /\ fovr = c.ovr
    /\ fout = <<>> /\ fout2 = <<>> /\ fstage = 0

FormatOnce ==
    /\ fstage = 0
    /\ fout' = format_display_name(fname, fstrip, facr, fovr)
    /\ fstage' = 1
    /\ UNCHANGED <<fname, fstrip, facr, fovr, fout2>>
    /\ UNCHANGED notFmt

FormatAgain ==
    /\ fstage = 1
    /\ fout2' = format_display_name(fout, fstrip, facr, fovr)
    /\ fstage' = 2
    /\ UNCHANGED <<fname, fstrip, facr, fovr, fout>>
    /\ UNCHANGED notFmt

FmtNext == FormatOnce \/ FormatAgain

-----------------------------------------------------------------------------
(* Specification SpecRT: calculate_reading_time on a body of rwords words  *)

RtIdle == rwords = 0 /\ rtime = 0 /\ rstage = 0

RtInit == rwords \in 0..MaxWords /\ rtime = 0 /\ rstage = 0

CalcReadingTime ==
    /\ rstage = 0
    /\ rtime' = calculate_reading_time(rwords)
    /\ rstage' = 1
    /\ UNCHANGED rwords
    /\ UNCHANGED notRt

RtNext == CalcReadingTime

-----------------------------------------------------------------------------
(* Specification SpecLoad: the Document Loader on one file                 *)

LineVocab == {LnDelim, LnTitle, LnItem, LnBroken, LnText, LnPctTitle, LnPctNote,
              LnPctKey, LnBlank}

FileIntro  == << <<"0","1","-","g","u","i","d","e","s">>,
                 <<"i","n","t","r","o",".","m","d">> >>     \* 01-guides/intro.md
FileApiFaq == << <<"0","2","_","a","p","i","-","f","a","q",".","m","d">> >>
                                                            \* 02_api-faq.md

LoadFiles == {FileIntro, FileApiFaq}

LoadIdle == lfile = <<>> /\ lcontent = Unreadable /\ lpage = None /\ lstage = 0

LoadInit ==
    /\ lfile \in LoadFiles
    /\ lcontent \in {Unreadable} \cup {Text(l) : l \in SeqsUpTo(LineVocab, MaxLines)}
    /\ lpage = None
    /\ lstage = 0

LoadFile ==
    /\ lstage = 0
    /\ lpage' = process_markdown_file(lfile, lcontent)
    /\ lstage' = 1
    /\ UNCHANGED <<lfile, lcontent>>
    /\ UNCHANGED notLoad

LoadNext == LoadFile

-----------------------------------------------------------------------------
(* Claims about the Document Loader, under SpecLoad                        *)

\* the file starts with a "---" block that is unterminated, is not parseable
\* YAML, or parses to something that is not a key-to-value mapping
HeaderLines(lines) == SubSeq(lines, 2, FindDelim(lines, 2) - 1)
Unterminated(lines) == FindDelim(lines, 2) = 0
MalformedHeader(text) ==
    /\ text.readable
    /\ text.lines # <<>>
    /\ text.lines[1] = LnDelim
    /\ \/ Unterminated(text.lines)
       \/ yaml_safe_load(HeaderLines(text.lines)).t \in {"raise", "list", "str"}

FallbackTitle(file) ==
    format_display_name(stem(file[Len(file)]), ConfigStripPrefix,
                        ConfigAcronyms, ConfigOverrides)

\* C7: a file whose leading "---" block is malformed (unparseable,
\* unterminated or not a mapping) still yields a Page, with empty
\* frontmatter and the formatted file name as its title.
C7_MalformedIsEmpty ==
    (lstage = 1 /\ MalformedHeader(lcontent)) =>
        /\ lpage # None
        /\ lpage.frontmatter = EmptyDict.d
        /\ lpage.title = FallbackTitle(lfile)

\* the leading lines that start with '%', by their positions
LeadingPct(lines) ==
    {i \in 1..Len(lines) : \A j \in 1..i : lines[j] # <<>> /\ lines[j][1] = "%"}

\* what follows the '%' of a header line, and the place of its first ':'
PctText(line) == strip(Tail(line))
HasColon(line) == \E c \in 1..Len(PctText(line)) : PctText(line)[c] = ":"
FirstColon(line) ==
    CHOOSE c \in 1..Len(PctText(line)) :
        /\ PctText(line)[c] = ":"
        /\ \A b \in 1..(c - 1) : PctText(line)[b] # ":"
PctKey(line) ==
    LET named == strip(SubSeq(PctText(line), 1, FirstColon(line) - 1))
    IN  [i \in 1..Len(named) |->
            IF named[i] = " " THEN "_" ELSE LowerChar(named[i])]
PctValue(line) ==
    strip(SubSeq(PctText(line), FirstColon(line) + 1, Len(PctText(line))))

IsContentLine(line) == strip(line) # <<>>

PctContent == lstage = 1 /\ lcontent.readable /\ lcontent.lines # <<>>
                /\ lcontent.lines[1] # <<>> /\ lcontent.lines[1][1] = "%"

\* C23: for content that starts with '%', the header is exactly the maximal
\* run of leading lines starting with '%': each of them that holds a ':'
\* gives a key (lower-cased, spaces replaced by underscores) and a value,
\* the first line not starting with '%' ends the header, and every later
\* line, a later line starting with '%' included, is part of the body.
C23_LeadingPctRun ==
    PctContent =>
        LET lines  == lcontent.lines
            header == LeadingPct(lines)
            fields == {i \in header : HasColon(lines[i])}
            later  == SubSeq(lines, Cardinality(header) + 1, Len(lines))
        IN  /\ lpage # None
            /\ DOMAIN lpage.frontmatter = {PctKey(lines[i]) : i \in fields}
            /\ \A i \in fields :
                  (\A j \in fields : j > i => PctKey(lines[j]) # PctKey(lines[i]))
                      => lpage.frontmatter[PctKey(lines[i])] = PctValue(lines[i])
            /\ SelectSeq(lpage.html_content.md, IsContentLine)
                  = SelectSeq(later, IsContentLine)

\* a header of two '%' lines, one of them without a ':', is ended by a
\* line of text that a third '%' line follows
C23_Witness ==
    /\ PctContent
    /\ lcontent.lines = <<LnPctTitle, LnPctNote, LnText, LnPctKey>>
    /\ lpage # None
    /\ lpage.html_content.md = <<LnText, LnPctKey>>

-----------------------------------------------------------------------------
(* Specification Spec: one run of main(), which builds a converter and     *)
(* calls generate_site on a content directory                              *)

FileAB      == << <<"a">>, <<"b",".","m","d">> >>             \* a/b.md
FileADashB  == << <<"a","-","b",".","m","d">> >>              \* a-b.md
FileABackB  == << <<"a","\\","b",".","m","d">> >>             \* a\b.md, one name
FileIndex   == << IndexMd >>                                  \* index.md
FileGitC    == << <<".","g","i","t">>, <<"c",".","m","d">> >> \* .git/c.md
FileDashesC == << <<"-","-","-">>, <<"c",".","m","d">> >>     \* ---/c.md
FileDashes  == << <<"-","-","-",".","m","d">> >>              \* ---.md

FileADB     == << <<"a">>, <<"d">>, <<"b",".","m","d">> >>    \* a/d/b.md

FileAbout   == << <<"a","b","o","u","t",".","m","d">> >>       \* about.md

PathPool == {FileAB, FileADashB, FileABackB, FileIntro, FileIndex,
             FileGitC, FileDashesC, FileADB, FileAbout}

TextPlain == Text(<<LnText>>)
TextTitled == Text(<<LnDelim, LnTitle, LnDelim, LnText>>)
TextList  == Text(<<LnDelim, LnItem, LnDelim, LnText>>)

RunContents == {TextPlain, TextList, Unreadable}

StaticAbout == <<"a","b","o","u","t",".","m","d">>            \* about.md
StaticPool  == {StaticAbout}

SitemapXml == <<"s","i","t","e","m","a","p",".","x","m","l">>
RobotsTxt  == <<"r","o","b","o","t","s",".","t","x","t">>

NoFile == <<>>

RunIdle ==
    /\ dir_exists = FALSE /\ disk = {} /\ content = <<>> /\ static_files = <<>>
    /\ pc = "idle" /\ all_pages = <<>> /\ categories = <<>> /\ next_page = 0
    /\ static_left = {} /\ written = <<>> /\ diag = {} /\ exit_code = -1

\* __init__ and the start of main(): nothing scanned, nothing written
RunInit ==
    /\ dir_exists \in BOOLEAN
    /\ disk \in {S \in SUBSET PathPool :
                    Cardinality(S) <= MaxFiles /\ (~dir_exists => S = {})}
    /\ content \in [disk -> RunContents]
    /\ \A f \in disk : f \notin md_files(disk) \cup {FileIndex} => content[f] = TextPlain
    /\ \E S \in SUBSET StaticPool : static_files \in [S -> RunContents]
    /\ pc = "main"
    /\ all_pages = <<>>
    /\ categories = <<>>
    /\ next_page = 0
    /\ static_left = {}
    /\ written = <<>>
    /\ diag = {}
    /\ exit_code = -1

Diag(msg, file) == [msg |-> msg, file |-> file]

\* an exception leaves generate_site and main(): traceback, exit status 1
Crash ==
    /\ pc' = "crashed"
    /\ exit_code' = 1

NoReplacements == <<>>

Write(path, kind, source, depth, replacements) ==
    written' = Append(written, [path |-> path, kind |-> kind, source |-> source,
                                depth |-> depth, replacements |-> replacements])

\* a file that is text of its own making rather than the filled-in template
WriteText(path, kind, text) ==
    written' = Append(written, [path |-> path, kind |-> kind, source |-> NoFile,
                                depth |-> 0, replacements |-> NoReplacements,
                                text |-> text])

AboutHtml      == <<"a","b","o","u","t",".","h","t","m","l">>
ContributeHtml == <<"c","o","n","t","r","i","b","u","t","e",".","h","t","m","l">>
HomeUrl        == <<>>

\* generate_sitemap: the <loc> of every <url>, after '{base_url}/'
generate_sitemap(pages) ==
    <<HomeUrl, AboutHtml, ContributeHtml>> \o [i \in 1..Len(pages) |-> pages[i].url]

\* generate_robots_txt: the file its Sitemap: line names, after '{base_url}/'
generate_robots_txt == <<SitemapXml>>

\* generate_site up to its test of self.all_pages: the scan
GenerateSiteScan ==
    /\ pc = "main"
    /\ LET scan     == scan_directory(dir_exists, disk, content, categories)
           skipped  == IF dir_exists
                       THEN {f \in md_files(disk) :
                               process_markdown_file(f, content[f]) = None}
                       ELSE {}
           printed  == {Diag("error_processing", f) : f \in skipped}
                         \cup (IF dir_exists THEN {}
                               ELSE {Diag("content_directory_not_found", NoFile)})
       IN  /\ all_pages' = scan.pages
           /\ categories' = scan.categories
           /\ IF scan.pages = <<>>
              THEN /\ diag' = diag \cup printed
                                \cup {Diag("no_markdown_files_found", NoFile)}
                   /\ pc' = "returned"
              ELSE /\ diag' = diag \cup printed
                   /\ pc' = "assets"
    /\ UNCHANGED <<dir_exists, disk, content, static_files, next_page,
                   static_left, written, exit_code>>
    /\ UNCHANGED notRun

\* setup_assets: mkdir and copies under the output directory, unguarded
SetupAssets ==
    /\ pc = "assets"
    /\ \E ok \in BOOLEAN :
          IF ok THEN pc' = "template" /\ UNCHANGED exit_code ELSE Crash
    /\ UNCHANGED <<dir_exists, disk, content, static_files, all_pages, categories,
                   next_page, static_left, written, diag>>
    /\ UNCHANGED notRun

\* load_template: open() and read() of the template file, unguarded
LoadTemplate ==
    /\ pc = "template"
    /\ \E ok \in BOOLEAN :
          IF ok THEN pc' = "index" /\ UNCHANGED exit_code ELSE Crash
    /\ UNCHANGED <<dir_exists, disk, content, static_files, all_pages, categories,
                   next_page, static_left, written, diag>>
    /\ UNCHANGED notRun

\* the navigation for depth 0, then generate_index: load_index_md reads
\* index.md when it exists, then index.html is written; nothing is guarded
GenerateIndex ==
    /\ pc = "index"
    /\ \E ok \in BOOLEAN :
          IF /\ ok
             /\ ~generate_navigation_html_for_depth(all_pages, 0).raised
             /\ (FileIndex \in disk => content[FileIndex].readable)
          THEN /\ Write(IndexHtml, "index",
                        IF FileIndex \in disk THEN FileIndex ELSE NoFile,
                        0,
                        IndexReplacements(
                            generate_navigation_html_for_depth(all_pages, 0)))
               /\ pc' = "pages"
               /\ next_page' = 1
               /\ UNCHANGED exit_code
          ELSE Crash /\ UNCHANGED <<written, next_page>>
    /\ UNCHANGED <<dir_exists, disk, content, static_files, all_pages, categories,
                   static_left, diag>>
    /\ UNCHANGED notRun

\* a loop over self.all_pages that takes each page off the list
GeneratePage_consuming ==
    /\ pc = "pages"
    /\ next_page <= Len(all_pages)
    /\ all_pages' = Tail(all_pages)
    /\ pc' = IF Len(all_pages) = 1 THEN "static" ELSE "pages"
    /\ static_left' = IF Len(all_pages) = 1 THEN DOMAIN static_files ELSE static_left
    /\ UNCHANGED <<dir_exists, disk, content, static_files, categories, next_page,
                   written, diag, exit_code>>
    /\ UNCHANGED notRun

\* generate_page for the next page of self.all_pages: the page is written to
\* output_dir / page['url']
GeneratePage ==
    /\ pc = "pages"
    /\ next_page <= Len(all_pages)
    /\ \E ok \in BOOLEAN :
          IF /\ ok
             /\ ~generate_navigation_html_for_depth(
                     all_pages, page_depth(all_pages[next_page].relative_path)).raised
          THEN /\ LET page  == all_pages[next_page]
                      depth == page_depth(page.relative_path)
                  IN  Write(page.url, "content", page.relative_path, depth,
                            PageReplacements(page, depth,
                                generate_navigation_html_for_depth(all_pages, depth)))
               /\ next_page' = next_page + 1
               /\ pc' = IF next_page = Len(all_pages) THEN "static" ELSE "pages"
               /\ static_left' = IF next_page = Len(all_pages)
                                 THEN DOMAIN static_files ELSE static_left
               /\ UNCHANGED exit_code
          ELSE Crash /\ UNCHANGED <<written, next_page, static_left>>
    /\ UNCHANGED <<dir_exists, disk, content, static_files, all_pages, categories,
                   diag>>
    /\ UNCHANGED notRun

\* generate_static_pages, one file of the pages folder: read, parse,
\* frontmatter.get and write, none of them guarded
GenerateStaticPage ==
    /\ pc = "static"
    /\ \E md_file \in static_left : \E ok \in BOOLEAN :
          IF /\ ok
             /\ static_files[md_file].readable
             /\ parse_frontmatter(static_files[md_file].lines).frontmatter.t = "dict"
          THEN /\ Write(Html(stem(md_file)), "static", <<md_file>>, 0,
                        StaticReplacements(
                            StaticTitle(md_file,
                                parse_frontmatter(static_files[md_file].lines).frontmatter.d),
                            generate_navigation_html_for_depth(all_pages, 0)))
               /\ static_left' = static_left \ {md_file}
               /\ UNCHANGED <<pc, exit_code>>
          ELSE Crash /\ UNCHANGED <<written, static_left>>
    /\ UNCHANGED <<dir_exists, disk, content, static_files, all_pages, categories,
                   next_page, diag>>
    /\ UNCHANGED notRun

\* sitemap.xml is written (generator.generate_sitemap is true, its default)
WriteSitemap ==
    /\ pc = "static"
    /\ static_left = {}
    /\ \E ok \in BOOLEAN :
          IF ok
          THEN /\ WriteText(SitemapXml, "sitemap", generate_sitemap(all_pages))
               /\ pc' = "robots"
               /\ UNCHANGED exit_code
          ELSE Crash /\ UNCHANGED written
    /\ UNCHANGED <<dir_exists, disk, content, static_files, all_pages, categories,
                   next_page, static_left, diag>>
    /\ UNCHANGED notRun

\* the configuration sets generator.generate_sitemap to false: no sitemap
SkipSitemap ==
    /\ pc = "static"
    /\ static_left = {}
    /\ pc' = "robots"
    /\ UNCHANGED <<dir_exists, disk, content, static_files, all_pages, categories,
                   next_page, static_left, written, diag, exit_code>>
    /\ UNCHANGED notRun

\* robots.txt is written and generate_site returns
WriteRobots ==
    /\ pc = "robots"
    /\ \E ok \in BOOLEAN :
          IF ok
          THEN /\ WriteText(RobotsTxt, "robots", generate_robots_txt)
               /\ pc' = "returned"
               /\ diag' = diag \cup {Diag("site_generated", NoFile)}
               /\ UNCHANGED exit_code
          ELSE Crash /\ UNCHANGED <<written, diag>>
    /\ UNCHANGED <<dir_exists, disk, content, static_files, all_pages, categories,
                   next_page, static_left>>
    /\ UNCHANGED notRun

\* main() after generate_site returned: the footer is printed and the
\* process ends normally
MainReturn ==
    /\ pc = "returned"
    /\ pc' = "done"
    /\ diag' = diag \cup {Diag("done", NoFile)}
    /\ exit_code' = 0
    /\ UNCHANGED <<dir_exists, disk, content, static_files, all_pages, categories,
                   next_page, static_left, written>>
    /\ UNCHANGED notRun

RunNext ==
    \/ GenerateSiteScan
    \/ SetupAssets
    \/ LoadTemplate
    \/ GenerateIndex
    \/ GeneratePage
    \/ GenerateStaticPage
    \/ WriteSitemap
    \/ SkipSitemap
    \/ WriteRobots
    \/ MainReturn

-----------------------------------------------------------------------------
(* Claims about a run, under Spec                                          *)

ScanDone == pc # "main"

\* C1: no two Pages of a scan have the same id.
C1_UniqueIds ==
    \A i, j \in 1..Len(all_pages) : i # j => all_pages[i].id # all_pages[j].id

\* C2: no two Pages of a scan have the same url.
C2_UniqueUrls ==
    \A i, j \in 1..Len(all_pages) : i # j => all_pages[i].url # all_pages[j].url

WrittenFrom(file) ==
    {k \in 1..Len(written) : written[k].kind = "content" /\ written[k].source = file}

GuidesIntroHtml ==
    <<"g","u","i","d","e","s","/","i","n","t","r","o",".","h","t","m","l">>
NumberedGuidesIntroHtml == <<"0","1","-">> \o GuidesIntroHtml

\* C4 as stated: the page of docs/01-guides/intro.md is written to
\* output/guides/intro.html, the numeric prefix of the folder stripped.
C4_WrittenWithoutPrefix ==
    \A k \in WrittenFrom(FileIntro) : written[k].path = GuidesIntroHtml

\* C4 as amended: the page of docs/01-guides/intro.md is written to
\* output/01-guides/intro.html, the folder name kept as it is on disk; the
\* prefix is stripped only from the page's display level, "Guides".
C4_WrittenAtMirroredPath ==
    /\ \A k \in WrittenFrom(FileIntro) : written[k].path = NumberedGuidesIntroHtml
    /\ \A i \in 1..Len(all_pages) :
          all_pages[i].relative_path = FileIntro =>
              /\ all_pages[i].url = NumberedGuidesIntroHtml
              /\ all_pages[i].levels = << <<"G","u","i","d","e","s">> >>

\* the page of 01-guides/intro.md has been written
C4_Witness == WrittenFrom(FileIntro) # {}

\* C5: when the content directory is missing or the scan yields no Pages,
\* the run is aborted with a diagnostic and the process ends in failure
\* (a non-zero exit status).
C5_AbortIsFailure ==
    (pc = "done" /\ (~dir_exists \/ all_pages = <<>>)) =>
        /\ Diag("no_markdown_files_found", NoFile) \in diag
        /\ written = <<>>
        /\ exit_code # 0

\* reading or processing the file raises an error
Raises(f) ==
    \/ ~content[f].readable
    \/ parse_frontmatter(content[f].lines).frontmatter.t # "dict"

BadFiles == {f \in md_files(disk) : Raises(f)}

\* C6: a file whose reading or processing raises yields no Page, every other
\* file is still processed, and the Page list and category map are those of
\* a scan of the same directory without the bad files.
C6_BadFileSkipped ==
    (ScanDone /\ dir_exists) =>
        LET without == scan_directory(TRUE, disk \ BadFiles, content, <<>>)
        IN  /\ all_pages = without.pages
            /\ categories = without.categories
            /\ \A i \in 1..Len(all_pages) : all_pages[i].relative_path \notin BadFiles
            /\ \A f \in md_files(disk) \ BadFiles :
                  \E i \in 1..Len(all_pages) : all_pages[i].relative_path = f
            /\ \A f \in BadFiles : Diag("error_processing", f) \in diag

\* a bad file was scanned before a good one, whose Page is in the list
C6_Witness ==
    /\ ScanDone
    /\ \E b \in BadFiles : \E i \in 1..Len(all_pages) :
          PathLess(b, all_pages[i].relative_path)

\* C8: no filesystem failure during generate_site escapes as an uncaught
\* exception: every read and every write is guarded.
C8_NoUncaughtException == pc # "crashed" /\ exit_code # 1

\* the Page a written content page was rendered from
PageOf(w) ==
    all_pages[CHOOSE i \in 1..Len(all_pages) : all_pages[i].relative_path = w.source]

Range(sq) == {sq[i] : i \in 1..Len(sq)}

WrittenOfKind(kinds) ==
    {written[j] : j \in {k \in 1..Len(written) : written[k].kind \in kinds}}

\* n times '../', written out character by character
UpDirs(n) == [j \in 1..(3 * n) |-> IF j % 3 = 0 THEN "/" ELSE "."]

\* C15: every Page of the Scanner has len(levels) = len(levels_raw) = depth,
\* and the depth the Page Renderer uses for the '../' prefixes of the page
\* (its number of relative path parts minus 1) is that same depth.
C15_DepthsAgree ==
    ScanDone =>
        /\ \A i \in 1..Len(all_pages) :
              /\ Len(all_pages[i].levels) = Len(all_pages[i].levels_raw)
              /\ Len(all_pages[i].levels_raw) = all_pages[i].depth
        /\ \A w \in WrittenOfKind({"content"}) :
              /\ w.depth = PageOf(w).depth
              /\ w.replacements["{{ASSETS_PATH}}"].chars
                    = UpDirs(PageOf(w).depth) \o AssetsDir

\* a page two folders deep has been written
C15_Witness ==
    \E w \in WrittenOfKind({"content"}) : PageOf(w).depth = 2 /\ w.depth = 2

Breadcrumb(w) == w.replacements["{{DYNAMIC_CONTENT_PLACEHOLDER}}"].breadcrumb

\* C19: the breadcrumb of a content page is one home link, then exactly one
\* non-link segment per entry of page.levels, the display names in
\* root-to-leaf order, then the page title as the last non-link segment; the
\* breadcrumbs of the index page and of the static pages have no level
\* segment.
C19_Breadcrumb ==
    /\ \A w \in WrittenOfKind({"content"}) :
          LET bc     == Breadcrumb(w)
              levels == PageOf(w).levels
          IN  /\ Len(bc) = Len(levels) + 2
              /\ bc[1].kind = "home-link" /\ bc[1].href # <<>>
              /\ \A k \in 1..Len(levels) :
                    /\ bc[k + 1].kind = "level"
                    /\ bc[k + 1].href = <<>>
                    /\ bc[k + 1].text = levels[k]
              /\ bc[Len(bc)].kind = "page"
              /\ bc[Len(bc)].href = <<>>
              /\ bc[Len(bc)].text = PageOf(w).title
    /\ \A w \in WrittenOfKind({"index", "static"}) :
          \A k \in 1..Len(Breadcrumb(w)) : Breadcrumb(w)[k].kind # "level"

\* a page under a folder whose display name differs from its raw name, the
\* index page and a static page have been written
C19_Witness ==
    /\ \E w \in WrittenOfKind({"content"}) :
          PageOf(w).levels # <<>> /\ PageOf(w).levels # PageOf(w).levels_raw
    /\ WrittenOfKind({"index"}) # {}
    /\ WrittenOfKind({"static"}) # {}

\* the placeholders of the template contract
GeneralPlaceholders ==
    {"{{SITE_NAME}}", "{{SITE_DESCRIPTION}}", "{{NAVIGATION_HTML}}",
     "{{DYNAMIC_PAGE_DATA}}", "{{GENERATION_DATE}}", "{{CURRENT_YEAR}}",
     "{{SITE_NAME_INITIAL}}", "{{DYNAMIC_CONTENT_PLACEHOLDER}}", "{{TOTAL_PAGES}}",
     "{{TOTAL_CATEGORIES}}", "{{HOME_URL}}", "{{ASSETS_PATH}}", "{{CONTRIBUTE_URL}}",
     "{{CONTRIBUTE_BUTTON}}", "{{CONTRIBUTE_FOOTER_LINK}}", "{{ABOUT_URL}}",
     "{{GITHUB_URL}}", "{{RECENT_SECTION}}", "{{BOOKMARKS_SECTION}}",
     "{{FOOTER_BOTTOM}}"}

SeoPlaceholders ==
    {"{{PAGE_TITLE}}", "{{META_DESCRIPTION}}", "{{META_KEYWORDS}}",
     "{{CANONICAL_URL}}", "{{OG_TITLE}}", "{{OG_IMAGE_URL}}", "{{JSON_LD}}"}

\* C20: the index page, every content page and every static page substitute
\* the same complete set of placeholders: each of the 20 general and the 7
\* SEO placeholders of the contract is a key of the replacement mapping.
C20_AllPlaceholders ==
    /\ Cardinality(GeneralPlaceholders) = 20
    /\ Cardinality(SeoPlaceholders) = 7
    /\ \A w \in WrittenOfKind({"index", "content", "static"}) :
          DOMAIN w.replacements = GeneralPlaceholders \cup SeoPlaceholders

\* a page of each of the three types has been written
C20_Witness ==
    /\ WrittenOfKind({"index"}) # {}
    /\ WrittenOfKind({"content"}) # {}
    /\ WrittenOfKind({"static"}) # {}
    /\ pc = "done"

\* the HTML files of the run: the index, the content pages, the static pages
HtmlKinds == {"index", "content", "static"}

\* C24: once the scan is over, no step of generate_site changes the Page
\* list, a Page record or the category map: the navigation rendering for any
\* depth, the index, a content page, a static page, the sitemap and
\* robots.txt all leave them as they are.
C24_ReadOnlyAfterScan ==
    [][pc # "main" => all_pages' = all_pages /\ categories' = categories]_vars

\* a run came to its end having rendered the index, a page in a folder, a
\* static page, the sitemap and robots.txt from a scan with a category
C24_Witness ==
    /\ pc = "done"
    /\ all_pages # <<>> /\ categories # <<>>
    /\ \A k \in {"index", "static", "sitemap", "robots"} : WrittenOfKind({k}) # {}
    /\ \E w \in WrittenOfKind({"content"}) : w.depth >= 1

\* C26: within one run no output file is written twice from different
\* sources: the output paths of index.html, of every content page and of
\* every static page are pairwise distinct.
C26_OutputsDistinct ==
    \A i, j \in 1..Len(written) :
        (/\ i # j
         /\ written[i].kind \in HtmlKinds
         /\ written[j].kind \in HtmlKinds) => written[i].path # written[j].path

\* the HTML file of the run that a url of the sitemap names
SitemapTarget(url) == IF url = HomeUrl THEN IndexHtml ELSE url

\* C30: at the end of every run that writes robots.txt, the sitemap it
\* references is there and is consistent: sitemap.xml was written in the
\* same run, and every url it lists (the home page, about.html,
\* contribute.html and each content page) is an HTML file of that run.
C30_SitemapConsistent ==
    (pc \in {"returned", "done"} /\ WrittenOfKind({"robots"}) # {}) =>
        /\ \A r \in WrittenOfKind({"robots"}) : \A ref \in Range(r.text) :
              \E m \in WrittenOfKind({"sitemap"}) : m.path = ref
        /\ \A m \in WrittenOfKind({"sitemap"}) : \A url \in Range(m.text) :
              \E w \in WrittenOfKind(HtmlKinds) : w.path = SitemapTarget(url)

-----------------------------------------------------------------------------
(* Specification SpecTree: build_tree on a Page list of the Scanner and on *)
(* a permutation of it                                                     *)

FileB       == << <<"b",".","m","d">> >>                          \* b.md
FileAC      == << <<"a">>, <<"c",".","m","d">> >>                 \* a/c.md
FilePagesB  == << KeyPages, <<"b",".","m","d">> >>                \* __pages__/b.md
FileAPagesB == << <<"a">>, KeyPages, <<"b",".","m","d">> >>       \* a/__pages__/b.md
FileDisplayB == << KeyDisplay, <<"b",".","m","d">> >>             \* __display__/b.md

FileADashDB == << <<"a","-","d">>, <<"b",".","m","d">> >>         \* a-d/b.md

TreePool == {FileB, FileAB, FileAC, FileADB, FileADashDB, FileIntro,
             FilePagesB, FileAPagesB, FileDisplayB}

\* the Page list the Scanner makes of a set of files of plain text
PagesOf(files) ==
    scan_directory(TRUE, files, [f \in files |-> TextPlain], <<>>).pages

Orderings(sq) ==
    { [i \in 1..Len(sq) |-> sq[p[i]]] :
        p \in {q \in [1..Len(sq) -> 1..Len(sq)] :
                 \A i, j \in 1..Len(sq) : i # j => q[i] # q[j]} }

TreeIdle ==
    /\ tpages = <<>> /\ tshuffled = <<>> /\ tree = EmptyTree
    /\ tree_shuffled = EmptyTree /\ tbuilt = {}

TreeInit ==
    /\ \E files \in {S \in SUBSET TreePool : Cardinality(S) <= MaxTreePages} :
          tpages = PagesOf(files)
    /\ tshuffled \in Orderings(tpages)
    /\ tree = EmptyTree
    /\ tree_shuffled = EmptyTree
    /\ tbuilt = {}

BuildTree ==
    /\ "list" \notin tbuilt
    /\ tree' = build_tree(tpages)
    /\ tbuilt' = tbuilt \cup {"list"}
    /\ UNCHANGED <<tpages, tshuffled, tree_shuffled>>
    /\ UNCHANGED notTree

BuildTreeShuffled ==
    /\ "shuffled" \notin tbuilt
    /\ tree_shuffled' = build_tree(tshuffled)
    /\ tbuilt' = tbuilt \cup {"shuffled"}
    /\ UNCHANGED <<tpages, tshuffled, tree>>
    /\ UNCHANGED notTree

TreeNext == BuildTree \/ BuildTreeShuffled

-----------------------------------------------------------------------------
(* Claims about the Tree Builder, under SpecTree                           *)

\* the category nodes of a tree: for every dict below the root, its raw-key
\* path, its display name and the set of pages attached to it; the root
\* itself, with the empty path, carries the root-level pages
RECURSIVE NodesOf(_, _)
NodesOf(node, path) ==
    LET here == [path    |-> path,
                 display |-> IF KeyDisplay \in DOMAIN node.items
                                  /\ node.items[KeyDisplay].t = "str"
                             THEN node.items[KeyDisplay].chars ELSE <<>>,
                 pages   |-> IF KeyPages \in DOMAIN node.items
                                  /\ node.items[KeyPages].t = "list"
                             THEN Range(node.items[KeyPages].elems) ELSE {}]
    IN  {here} \cup UNION { NodesOf(node.items[k], Append(path, k)) :
                             k \in {x \in DOMAIN node.items : node.items[x].t = "dict"} }

BothBuilt == tbuilt = {"list", "shuffled"}

\* C10: build_tree on a Page list and on any permutation of it yields the
\* same set of category nodes (raw-key paths and display names) with the
\* same set of pages attached to each; it fails on the one exactly when it
\* fails on the other.
C10_OrderIndependent ==
    BothBuilt =>
        /\ (tree = TreeError) <=> (tree_shuffled = TreeError)
        /\ tree # TreeError => NodesOf(tree, <<>>) = NodesOf(tree_shuffled, <<>>)

\* a tree of nested folders was built from a list and from a different order
C10_Witness ==
    /\ BothBuilt
    /\ tshuffled # tpages
    /\ tree # TreeError
    /\ \E n \in NodesOf(tree, <<>>) : Len(n.path) = 2 /\ n.pages # {}
    /\ \E n \in NodesOf(tree, <<>>) : Len(n.path) = 1 /\ Cardinality(n.pages) = 2

-----------------------------------------------------------------------------
(* Specification SpecNav: the navigation of a Page list of the Scanner,    *)
(* rendered for a page at some depth                                       *)

NavIdle == npages = <<>> /\ ndepth = 0 /\ nav = NavHtml(<<>>) /\ nstage = 0

\* a file of the content directory has a title of its own, or none
NavContents == {TextPlain, TextTitled}

NavInit ==
    /\ \E files \in {S \in SUBSET TreePool : Cardinality(S) <= MaxTreePages} :
          \E contents \in [files -> NavContents] :
              npages = scan_directory(TRUE, files, contents, <<>>).pages
    /\ ndepth = 0
    /\ nav = NavHtml(<<>>)
    /\ nstage = 0

RenderNavigation ==
    /\ nstage = 0
    /\ \E depth \in 0..MaxNavDepth :
          /\ ndepth' = depth
          /\ nav' = generate_navigation_html_for_depth(npages, depth)
    /\ nstage' = 1
    /\ UNCHANGED npages
    /\ UNCHANGED notNav

NavNext == RenderNavigation

-----------------------------------------------------------------------------
(* Claims about the navigation, under SpecNav                              *)

NavRendered == nstage = 1 /\ ~nav.raised

\* the links of the rendered navigation
NavLinksOf(items) == {items[i] : i \in {j \in 1..Len(items) : items[j].kind = "link"}}

\* d times '../', written out character by character
DotDots(d) == [j \in 1..(3 * d) |-> IF j % 3 = 0 THEN "/" ELSE "."]

\* C11: the navigation rendered for depth d gives every page link it emits
\* the href made of exactly d '../' segments followed by the page's url, for
\* the root-level pages and for the links at every nesting level.
C11_LinksPrefixed ==
    NavRendered =>
        \A l \in NavLinksOf(nav.items) :
            \E i \in 1..Len(npages) :
                /\ npages[i].relative_path = l.source
                /\ l.href = DotDots(ndepth) \o npages[i].url

\* the navigation of a page two folders deep links a root-level page, a page
\* of a top-level folder and a page of a nested folder
C11_Witness ==
    /\ NavRendered
    /\ ndepth = 2
    /\ \A lv \in 0..2 : \E l \in NavLinksOf(nav.items) : l.level = lv

IsHeader(item) == item.kind \in {"category", "subcategory", "deep"}

\* items i and j, i before j, are children of one node: sections or links of
\* one level with nothing of an outer level between them
SameNode(items, i, j) ==
    /\ i < j
    /\ IsHeader(items[i]) \/ items[i].kind = "link"
    /\ IsHeader(items[j]) \/ items[j].kind = "link"
    /\ items[i].level = items[j].level
    /\ \A k \in i..j : items[k].level >= items[i].level

\* C22: in the rendered navigation, at every node, the child folders all
\* come before the node's own pages, the child folders in ascending order of
\* raw folder name and the pages in ascending order of title; at the top
\* level the categories all come before the root-level pages.
C22_FoldersThenPages ==
    NavRendered =>
        \A i, j \in 1..Len(nav.items) :
            SameNode(nav.items, i, j) =>
                LET first  == nav.items[i]
                    second == nav.items[j]
                IN  /\ ~(first.kind = "link" /\ IsHeader(second))
                    /\ IsHeader(first) /\ IsHeader(second)
                         => StrLess(first.source[1], second.source[1])
                    /\ first.kind = "link" /\ second.kind = "link"
                         => ~StrLess(second.text, first.text)

\* a folder with a subfolder and two pages whose titles are in the other
\* order than their file names, beside a second top-level folder whose
\* display name sorts the other way than its raw name
C22_Witness ==
    /\ NavRendered
    /\ \E i, j \in 1..Len(nav.items) :
          /\ SameNode(nav.items, i, j)
          /\ nav.items[i].kind = "link" /\ nav.items[j].kind = "link"
          /\ PathLess(nav.items[j].source, nav.items[i].source)
          /\ \E h \in 1..(i - 1) :
                SameNode(nav.items, h, i) /\ IsHeader(nav.items[h])
    /\ \E i, j \in 1..Len(nav.items) :
          /\ SameNode(nav.items, i, j)
          /\ IsHeader(nav.items[i]) /\ IsHeader(nav.items[j])
          /\ StrLess(nav.items[j].text, nav.items[i].text)

\* the links of the navigation to the page of one file
LinksTo(items, file) ==
    {j \in 1..Len(items) : items[j].kind = "link" /\ items[j].source = file}

\* C25: the navigation is complete: for every Page list the Scanner can
\* produce and every depth, the rendering succeeds and its markup holds
\* exactly one link for each Page, whatever the raw folder names are
\* ('__pages__' and '__display__' included).
C25_NavigationComplete ==
    nstage = 1 =>
        /\ ~nav.raised
        /\ \A i \in 1..Len(npages) :
              Cardinality(LinksTo(nav.items, npages[i].relative_path)) = 1

\* the collapsible sections of the navigation, by their positions
Sections(items) == {i \in 1..Len(items) : IsHeader(items[i])}

\* C29: the ids of the collapsible sections are unique per category node:
\* two nodes of distinct raw-key paths never get the same element id (the
\* id being the parent's id, '-', and the raw key lower-cased with ' '
\* replaced by '-' and '&' by 'and').
C29_SectionIdsUnique ==
    NavRendered =>
        \A i, j \in Sections(nav.items) :
            i # j => nav.items[i].id # nav.items[j].id

-----------------------------------------------------------------------------
(* Specification SpecScan: scan_directory on a content directory whose     *)
(* files the file system enumerates in one order, and in another           *)

FileAGitC    == << <<"a">>, <<".","g","i","t">>, <<"c",".","m","d">> >>  \* a/.git/c.md
FileADModC   == << <<"a">>, <<"d">>,
                   <<"n","o","d","e","_","m","o","d","u","l","e","s">>,
                   <<"c",".","m","d">> >>               \* a/d/node_modules/c.md
FileADotsC   == << <<"a">>, <<".",".",".">>, <<"c",".","m","d">> >>     \* a/.../c.md
FileDotNC    == << <<".","n">>, <<"c",".","m","d">> >>                  \* .n/c.md
FileDashDotA == << <<"-",".","a",".","m","d">> >>                       \* -.a.md

ScanPool == {FileAB, FileAC, FileADashB, FileIndex, FileAGitC, FileADModC,
             FileDashes, FileADotsC, FileDotNC, FileDashDotA}

Reverse(sq) == [i \in 1..Len(sq) |-> sq[Len(sq) + 1 - i]]

NoScan == [pages |-> <<>>, categories |-> <<>>]

ScanIdle ==
    /\ senum = <<>> /\ senum2 = <<>> /\ sscan = NoScan /\ sscan2 = NoScan
    /\ sdone = {}

\* the two enumerations hold the same files; the first is the reference
\* every other order is compared with
ScanInit ==
    /\ \E files \in {S \in SUBSET ScanPool : Cardinality(S) <= MaxScanFiles} :
          senum = Reverse(sorted(files))
    /\ senum2 \in Orderings(senum)
    /\ sscan = NoScan
    /\ sscan2 = NoScan
    /\ sdone = {}

ScanContents(enum) == [f \in {enum[i] : i \in 1..Len(enum)} |-> TextPlain]

ScanDirectory ==
    /\ "first" \notin sdone
    /\ sscan' = scan_enumerated(senum, ScanContents(senum), <<>>)
    /\ sdone' = sdone \cup {"first"}
    /\ UNCHANGED <<senum, senum2, sscan2>>
    /\ UNCHANGED notScan

ScanDirectoryAgain ==
    /\ "second" \notin sdone
    /\ sscan2' = scan_enumerated(senum2, ScanContents(senum2), <<>>)
    /\ sdone' = sdone \cup {"second"}
    /\ UNCHANGED <<senum, senum2, sscan>>
    /\ UNCHANGED notScan

ScanNext == ScanDirectory \/ ScanDirectoryAgain

-----------------------------------------------------------------------------
(* Claims about the Content Scanner, under SpecScan                        *)

Scanned == "first" \in sdone

ScannedFiles == {sscan.pages[i].relative_path : i \in 1..Len(sscan.pages)}

EnumeratedFiles == {senum[i] : i \in 1..Len(senum)}

\* C12: no Page of the Scanner's output comes from a file that has a
\* configured excluded folder name as a segment anywhere in its path, at any
\* nesting depth.
C12_ExcludedNeverScanned ==
    Scanned =>
        \A f \in ScannedFiles : \A i \in 1..Len(f) : f[i] \notin ExcludeFolders

\* files under an excluded folder, one two and one three folders deep, were
\* found beside a file that became a Page
C12_Witness ==
    /\ Scanned
    /\ ScannedFiles # {}
    /\ \E f \in EnumeratedFiles : Len(f) = 3 /\ f[2] \in ExcludeFolders
    /\ \E f \in EnumeratedFiles : Len(f) = 4 /\ f[3] \in ExcludeFolders

\* a name after its trailing extension (the text from the last dot on) is
\* removed and the separator characters are trimmed from both ends
Trimmed(name) ==
    LET dots == {i \in 1..Len(name) : name[i] = "."}
        cut  == IF dots = {} THEN name
                ELSE SubSeq(name, 1, (CHOOSE i \in dots : \A j \in dots : j <= i) - 1)
        keep == {i \in 1..Len(cut) : cut[i] \notin {"-", "_", "=", ".", " "}}
    IN  IF keep = {} THEN <<>>
        ELSE SubSeq(cut, CHOOSE i \in keep : \A j \in keep : i <= j,
                         CHOOSE i \in keep : \A j \in keep : j <= i)

InvalidName(name) == ~\E i \in 1..Len(Trimmed(name)) : IsAlnum(Trimmed(name)[i])

\* the stem of the file, or some folder segment of its path, is invalid
HasInvalidName(f) ==
    \/ InvalidName(stem(f[Len(f)]))
    \/ \E i \in 1..(Len(f) - 1) : InvalidName(f[i])

\* the file passes the filters that are not about the validity of names
OtherwiseAccepted(f) ==
    /\ f[Len(f)] # IndexMd
    /\ \A i \in 1..Len(f) : f[i] \notin ExcludeFolders

\* C13: a file is skipped by the Scanner for an invalid name exactly when its
\* stem, or some folder segment of its relative path, holds no alphanumeric
\* character once one trailing extension is stripped and the separator
\* characters - _ = . and space are trimmed from both ends; segments such as
\* '---' and '...' are excluded.
C13_InvalidNameSkipped ==
    Scanned =>
        /\ \A f \in EnumeratedFiles :
              OtherwiseAccepted(f) => (f \notin ScannedFiles <=> HasInvalidName(f))
        /\ \A f \in ScannedFiles : ~HasInvalidName(f)
        /\ \A f \in EnumeratedFiles :
              (\E i \in 1..Len(f) : stem(f[i]) \in {<<"-","-","-">>, <<".",".",".">>}
                                      \/ f[i] \in {<<"-","-","-">>, <<".",".",".">>})
                  => f \notin ScannedFiles

\* a file with an invalid stem and a file under a nested invalid folder were
\* skipped, a file with valid names was not
C13_Witness ==
    /\ Scanned
    /\ ScannedFiles # {}
    /\ \E f \in EnumeratedFiles \ ScannedFiles :
          OtherwiseAccepted(f) /\ InvalidName(stem(f[Len(f)]))
    /\ \E f \in EnumeratedFiles \ ScannedFiles :
          OtherwiseAccepted(f) /\ \E i \in 2..(Len(f) - 1) : InvalidName(f[i])

BothScanned == sdone = {"first", "second"}

\* C14: for the same set of files, any two orders in which the file system
\* enumerates them yield the same ordered Page list and the same page order
\* in every category.
C14_EnumerationOrderIrrelevant ==
    BothScanned =>
        /\ sscan2.pages = sscan.pages
        /\ sscan2.categories = sscan.categories

\* two different enumerations of a directory gave Pages, two of them in one
\* category
C14_Witness ==
    /\ BothScanned
    /\ senum2 # senum
    /\ Len(sscan.pages) >= 2
    /\ \E i \in 1..Len(sscan.categories) : Len(sscan.categories[i].pages) >= 2

-----------------------------------------------------------------------------
(* Specification SpecWords: strip_number_prefix on a name, or              *)
(* capitalize_with_acronyms on a text and an acronym set                   *)

StripChars == {"1", "-", "_", ".", " ", "a"}
CapChars   == {"a", "n", "A", "N", " "}

\* the acronym sets of the configuration
CapAcronyms == { {}, {<<"a","n">>} }

WordsIdle ==
    /\ wop = "none" /\ wtext = <<>> /\ wacr = {} /\ wout = <<>> /\ wstage = 0

WordsInit ==
    /\ \/ wop = "strip" /\ wtext \in SeqsUpTo(StripChars, MaxTextLen) /\ wacr = {}
       \/ wop = "capitalize" /\ wtext \in SeqsUpTo(CapChars, MaxTextLen)
                              /\ wacr \in CapAcronyms
    /\ wout = <<>>
    /\ wstage = 0

StripNumberPrefix ==
    /\ wop = "strip" /\ wstage = 0
    /\ wout' = strip_number_prefix(wtext)
    /\ wstage' = 1
    /\ UNCHANGED <<wop, wtext, wacr>>
    /\ UNCHANGED notWord

CapitalizeWithAcronyms ==
    /\ wop = "capitalize" /\ wstage = 0
    /\ wout' = capitalize_with_acronyms(wtext, wacr)
    /\ wstage' = 1
    /\ UNCHANGED <<wop, wtext, wacr>>
    /\ UNCHANGED notWord

WordsNext == StripNumberPrefix \/ CapitalizeWithAcronyms

-----------------------------------------------------------------------------
(* Claims about strip_number_prefix and capitalize_with_acronyms, under    *)
(* SpecWords                                                               *)

Stripped == wop = "strip" /\ wstage = 1

\* the number of leading characters of the text, from index from, that are
\* all in the class
LeadingRun(text, from, class) ==
    LET runs == {k \in 0..(Len(text) - from + 1) :
                    \A i \in from..(from + k - 1) : text[i] \in class}
    IN  CHOOSE k \in runs : \A j \in runs : j <= k

Digits == {"0","1","2","3","4","5","6","7","8","9"}
PrefixSeparators == {"-", "_", ".", " "}

\* C16: strip_number_prefix removes exactly one leading prefix made of one
\* or more digits followed by one or more of dash, underscore, dot and
\* whitespace, the whole separator run, and returns every name without such
\* a prefix unchanged; '01-fundamentals' gives 'fundamentals' and
\* '04 - Notes' gives 'Notes'.
C16_StripsOnePrefix ==
    /\ Stripped =>
          LET d == LeadingRun(wtext, 1, Digits)
              r == LeadingRun(wtext, d + 1, PrefixSeparators)
          IN  IF d >= 1 /\ r >= 1
              THEN wout = SubSeq(wtext, d + r + 1, Len(wtext))
              ELSE wout = wtext
    /\ strip_number_prefix(<<"0","1","-","f","u","n","d","a","m","e","n","t","a","l","s">>) = <<"f","u","n","d","a","m","e","n","t","a","l","s">>
    /\ strip_number_prefix(<<"0","2","_","g","u","i","d","e","s">>) = <<"g","u","i","d","e","s">>
    /\ strip_number_prefix(<<"0","3","."," ","R","e","f","e","r","e","n","c","e">>) = <<"R","e","f","e","r","e","n","c","e">>
    /\ strip_number_prefix(<<"0","4"," ","-"," ","N","o","t","e","s">>) = <<"N","o","t","e","s">>

\* a prefix with a run of two separators was removed, and what is left
\* begins with a digit
C16_Witness ==
    /\ Stripped
    /\ wout # wtext
    /\ LeadingRun(wtext, LeadingRun(wtext, 1, Digits) + 1, PrefixSeparators) = 2
    /\ wout # <<>> /\ wout[1] \in Digits

Capitalized == wop = "capitalize" /\ wstage = 1

FunctionWords ==
    { <<"a","n","d">>,
      <<"o","r">>,
      <<"t","h","e">>,
      <<"a">>,
      <<"a","n">>,
      <<"i","n">>,
      <<"o","n">>,
      <<"a","t">>,
      <<"t","o">>,
      <<"f","o","r">>,
      <<"o","f">>,
      <<"w","i","t","h">> }

AllUpper(word) ==
    /\ \E i \in 1..Len(word) : IsUpperChar(word[i])
    /\ \A i \in 1..Len(word) : ~IsLowerChar(word[i])

\* what the claim gives for the k-th word of a text
ExpectedWord(word, k, acronyms) ==
    IF lower(word) \in acronyms THEN upper(word)
    ELSE IF Len(word) >= 2 /\ AllUpper(word) THEN word
    ELSE IF k > 1 /\ lower(word) \in FunctionWords THEN lower(word)
    ELSE <<UpperChar(word[1])>> \o lower(Tail(word))

\* C17: in capitalize_with_acronyms a word whose lowercase form is in the
\* acronym set is fully upper-cased; otherwise a word of two or more
\* characters that is all uppercase is kept; both come before the lowering
\* of function words, which applies only to a word that is not the first;
\* every other word is capitalized.
C17_WordRules ==
    /\ Capitalized =>
          LET words == split(wtext)
              outs  == split(wout)
          IN  /\ Len(outs) = Len(words)
              /\ \A k \in 1..Len(words) : outs[k] = ExpectedWord(words[k], k, wacr)
              /\ wout = join(<<" ">>, outs)
    /\ capitalize_with_acronyms(<<"a","p","i"," ","t","e","s","t","i","n","g">>, {<<"a","p","i">>}) = <<"A","P","I"," ","T","e","s","t","i","n","g">>
    /\ capitalize_with_acronyms(<<"T","O"," ","D","O"," ","l","i","s","t">>, {}) = <<"T","O"," ","D","O"," ","L","i","s","t">>

\* a text whose second word is an uppercase function word, kept as it is
C17_Witness ==
    /\ Capitalized
    /\ Len(split(wtext)) = 2
    /\ split(wtext)[2] = <<"A","N">>
    /\ wacr = {}
    /\ split(wout)[2] = <<"A","N">>

-----------------------------------------------------------------------------
(* Claims about the Name Formatter, under SpecFmt                          *)

\* no override key matches the name or its result, raw or number-stripped
NoOverrideHit ==
    /\ fname \notin DOMAIN fovr
    /\ strip_number_prefix(fname) \notin DOMAIN fovr
    /\ fout \notin DOMAIN fovr
    /\ strip_number_prefix(fout) \notin DOMAIN fovr

\* C9 as stated: format_display_name is idempotent for every name, acronym
\* set and override map: formatting the result again gives the result.
C9_Idempotent == fstage = 2 => fout2 = fout

\* C9 as amended: formatting the result again gives the result whenever no
\* override key matches the name or its result and the result does not
\* itself begin with a number prefix.
C9_IdempotentOnceStripped ==
    (fstage = 2 /\ NoOverrideHit /\ strip_number_prefix(fout) = fout)
        => fout2 = fout

\* a name with a number prefix was formatted twice, no override involved: the
\* first pass stripped the prefix and capitalised a word, the second pass
\* found nothing left to change
C9_Witness ==
    /\ fstage = 2 /\ NoOverrideHit
    /\ strip_number_prefix(fout) = fout
    /\ strip_number_prefix(fname) # fname
    /\ Len(fout) >= 2
    /\ fout # fname
    /\ fout2 = fout

Formatted == fstage >= 1

\* C18: format_display_name returns the name unchanged when stripping is
\* disabled; otherwise an override keyed by the exact raw name is returned
\* verbatim, else an override keyed by the number-stripped name is returned
\* verbatim, and only when neither matches is the stripped name
\* space-converted and capitalized; a raw-name override always wins over a
\* stripped-name override.
C18_OverrideOrder ==
    Formatted =>
        LET stripped == strip_number_prefix(fname)
            spaced   == [i \in 1..Len(stripped) |->
                            IF stripped[i] \in {"-", "_"} THEN " " ELSE stripped[i]]
        IN  /\ ~fstrip => fout = fname
            /\ (fstrip /\ fname \in DOMAIN fovr) => fout = fovr[fname]
            /\ (fstrip /\ fname \notin DOMAIN fovr /\ stripped \in DOMAIN fovr)
                  => fout = fovr[stripped]
            /\ (fstrip /\ fname \notin DOMAIN fovr /\ stripped \notin DOMAIN fovr)
                  => fout = capitalize_with_acronyms(spaced, facr)

\* a name with an override for itself and another for its stripped form was
\* formatted, and the override of the raw name was returned
C18_Witness ==
    /\ Formatted /\ fstrip
    /\ fname \in DOMAIN fovr
    /\ strip_number_prefix(fname) \in DOMAIN fovr
    /\ strip_number_prefix(fname) # fname
    /\ fovr[strip_number_prefix(fname)] # fovr[fname]
    /\ fout = fovr[fname]

-----------------------------------------------------------------------------
(* Claims about the reading time, under SpecRT                             *)

Abs(x) == IF x < 0 THEN -x ELSE x

\* C3 as stated: the reading time is the ceiling of (word count / 200),
\* with a minimum of 1, for every word count.
C3_Ceiling ==
    rstage = 1 =>
        /\ rtime >= 1
        /\ rtime * WordsPerMinute >= rwords
        /\ (rtime > 1 => (rtime - 1) * WordsPerMinute < rwords)

\* C3 as amended: the reading time is (word count / 200) rounded to the
\* nearest integer, an exact half going to the even integer, with a minimum
\* of 1; 400 words give 2, 50 give 1, 0 gives 1, 250 give 1, 500 give 2.
C3_Nearest ==
    rstage = 1 =>
        /\ rtime >= 1
        /\ (rwords <= WordsPerMinute \div 2 => rtime = 1)
        /\ (rwords > WordsPerMinute \div 2 =>
               /\ 2 * Abs(rtime * WordsPerMinute - rwords) <= WordsPerMinute
               /\ (2 * Abs(rtime * WordsPerMinute - rwords) = WordsPerMinute
                      => rtime % 2 = 0))
        /\ (rwords = 400 => rtime = 2)
        /\ (rwords = 50 => rtime = 1)
        /\ (rwords = 0 => rtime = 1)
        /\ (rwords = 250 => rtime = 1)
        /\ (rwords = 500 => rtime = 2)

\* a body of 500 words, two and a half minutes, was given 2 minutes
C3_Witness == rstage = 1 /\ rwords = 500 /\ rtime = 2

-----------------------------------------------------------------------------

-----------------------------------------------------------------------------
(* SEO Emitter: the descriptions generate_meta_description and             *)
(* generate_json_ld produce for one page of one type.                      *)

\* the [:160] of generate_meta_description
DescriptionLimit == 160
\* s[:n]
Truncate(s, n) == SubSeq(s, 1, IF Len(s) < n THEN Len(s) ELSE n)
\* a text of n characters
Filler(n) == [i \in 1..n |-> "x"]

\* page is None for the index page
NoPage == [present |-> FALSE, title |-> <<>>, levels |-> <<>>,
           description |-> <<>>]
\* a Page, or the static_page_data of generate_static_pages; description is
\* frontmatter.get('description'), empty when the key is absent
SeoPage(title, levels, description) ==
    [present |-> TRUE, title |-> title, levels |-> levels,
     description |-> description]

\* the default index_description after '{site_name}'
IndexDescriptionTail == <<" ","-"," ","c","o","m","p","r","e","h","e","n","s","i","v","e"," ","d","o","c","u","m","e","n","t","a","t","i","o","n"," ","a","n","d"," ","g","u","i","d","e","s",".">>
LearnAbout == <<"L","e","a","r","n"," ","a","b","o","u","t"," ">>
InCategory == <<" ","i","n"," ">>
DocumentationFrom == <<"."," ","D","o","c","u","m","e","n","t","a","t","i","o","n"," ","f","r","o","m"," ">>
FullStop == <<".">>

generate_meta_description(description, page, page_type) ==
    IF page_type = "index"
    THEN Truncate(SiteName \o IndexDescriptionTail, DescriptionLimit)
    ELSE IF page.present /\ page.description # <<>>
    THEN Truncate(page.description, DescriptionLimit)
    ELSE IF page.present
    THEN LET category == IF page.levels # <<>>
                         THEN page.levels[Len(page.levels)] ELSE General
         IN  Truncate(LearnAbout \o page.title \o InCategory \o category
                        \o DocumentationFrom \o SiteName \o FullStop,
                      DescriptionLimit)
    ELSE Truncate(description, DescriptionLimit)

\* the "@type" and the "description" of the JSON-LD object
generate_json_ld(description, page, page_type) ==
    IF page_type = "index"
    THEN [type |-> "WebSite", description |-> description]
    ELSE [type |-> "TechArticle",
          description |-> generate_meta_description(description, page, page_type)]

SeoLevels == {<<>>, <<<<"a">>>>}
SeoPages ==
    {SeoPage(Filler(t), l, Filler(d)) :
        t \in {1, MaxDescLen}, l \in SeoLevels, d \in {0, 1, MaxDescLen}}
NoJsonLd == [type |-> "none", description |-> <<>>]

SeoIdle ==
    /\ edescription = <<>> /\ etype = "none" /\ epage = NoPage
    /\ emeta = <<>> /\ ejson_ld = NoJsonLd /\ estage = -1

SeoInit ==
    /\ edescription \in {Filler(n) : n \in 0..MaxDescLen}
    /\ etype \in {"index", "static", "content"}
    /\ epage \in IF etype = "index" THEN {NoPage} ELSE SeoPages
    /\ emeta = <<>> /\ ejson_ld = NoJsonLd /\ estage = 0

\* get_seo_replacements: the META_DESCRIPTION and the JSON_LD of the page
EmitSeo ==
    /\ estage = 0
    /\ emeta' = generate_meta_description(edescription, epage, etype)
    /\ ejson_ld' = generate_json_ld(edescription, epage, etype)
    /\ estage' = 1
    /\ UNCHANGED <<edescription, etype, epage>>
    /\ UNCHANGED notSeo

SeoNext == EmitSeo

\* C21: every description the SEO Emitter produces has at most 160
\* characters, for every page type: the meta description of the index, of a
\* static page and of a content page, and the description of the JSON-LD
\* object (WebSite for the index, TechArticle otherwise).
C21_DescriptionsTruncated ==
    estage = 1 =>
        /\ Len(emeta) <= DescriptionLimit
        /\ Len(ejson_ld.description) <= DescriptionLimit

-----------------------------------------------------------------------------
(* Specification SpecSubst: the template filled in by generate_index,      *)
(* generate_page and generate_static_pages.  A text is the sequence of its *)
(* pieces: a piece is a placeholder token or a stretch of other text.      *)

\* the keys of the replacements dict, in the order the dict literal and
\* get_seo_replacements list them, which is the order of .items()
PlaceholderOrder ==
    <<"{{SITE_NAME}}", "{{SITE_DESCRIPTION}}", "{{NAVIGATION_HTML}}",
      "{{DYNAMIC_PAGE_DATA}}", "{{GENERATION_DATE}}", "{{CURRENT_YEAR}}",
      "{{SITE_NAME_INITIAL}}", "{{DYNAMIC_CONTENT_PLACEHOLDER}}",
      "{{TOTAL_PAGES}}", "{{TOTAL_CATEGORIES}}", "{{HOME_URL}}",
      "{{ASSETS_PATH}}", "{{CONTRIBUTE_URL}}", "{{CONTRIBUTE_BUTTON}}",
      "{{CONTRIBUTE_FOOTER_LINK}}", "{{ABOUT_URL}}", "{{GITHUB_URL}}",
      "{{RECENT_SECTION}}", "{{BOOKMARKS_SECTION}}", "{{FOOTER_BOTTOM}}",
      "{{PAGE_TITLE}}", "{{META_DESCRIPTION}}", "{{META_KEYWORDS}}",
      "{{CANONICAL_URL}}", "{{OG_TITLE}}", "{{OG_IMAGE_URL}}", "{{JSON_LD}}">>

\* html.replace(placeholder, replacement)
RECURSIVE str_replace(_, _, _)
str_replace(text, placeholder, replacement) ==
    IF text = <<>> THEN <<>>
    ELSE (IF text[1] = placeholder THEN replacement ELSE <<text[1]>>)
         \o str_replace(Tail(text), placeholder, replacement)

\* for placeholder, replacement in replacements.items():
\*     html = html.replace(placeholder, replacement)
RECURSIVE ReplaceEach(_, _, _)
ReplaceEach(html, placeholders, replacements) ==
    IF placeholders = <<>> THEN html
    ELSE ReplaceEach(str_replace(html, placeholders[1], replacements[placeholders[1]]),
                     Tail(placeholders), replacements)

\* what a template, the site name of the configuration and the body of a
\* page can hold
TemplatePieces == {"<p>", "{{SITE_NAME}}", "{{DYNAMIC_CONTENT_PLACEHOLDER}}",
                   "{{TOTAL_PAGES}}"}
SiteNames    == {<<"Docs">>, <<"{{TOTAL_PAGES}}">>}
PageContents == {<<"text">>, <<"{{SITE_NAME}}">>, <<"{{TOTAL_PAGES}}">>,
                 <<"a", "{{JSON_LD}}">>}

SubstReplacements(site_name, page_content) ==
    [k \in Range(PlaceholderOrder) |->
        IF k = "{{SITE_NAME}}" THEN site_name
        ELSE IF k = "{{DYNAMIC_CONTENT_PLACEHOLDER}}" THEN page_content
        ELSE IF k = "{{TOTAL_PAGES}}" THEN <<"2">>
        ELSE <<"value">>]

SubstIdle ==
    ptemplate = <<>> /\ preplacements = <<>> /\ phtml = <<>> /\ pstage = -1

SubstInit ==
    /\ ptemplate \in SeqsUpTo(TemplatePieces, MaxTemplateLen)
    /\ \E site_name \in SiteNames, page_content \in PageContents :
          preplacements = SubstReplacements(site_name, page_content)
    /\ phtml = <<>>
    /\ pstage = 0

\* the loop over replacements.items() of generate_page
FillTemplate ==
    /\ pstage = 0
    /\ phtml' = ReplaceEach(ptemplate, PlaceholderOrder, preplacements)
    /\ pstage' = 1
    /\ UNCHANGED <<ptemplate, preplacements>>
    /\ UNCHANGED notSubst

SubstNext == FillTemplate

\* every token of the template replaced by its value in one pass
RECURSIVE Simultaneous(_, _)
Simultaneous(text, replacements) ==
    IF text = <<>> THEN <<>>
    ELSE (IF text[1] \in DOMAIN replacements THEN replacements[text[1]]
          ELSE <<text[1]>>)
         \o Simultaneous(Tail(text), replacements)

\* C28: the substitution rewrites only the tokens of the template text: a
\* placeholder token inside a substituted value (a page body or a site name
\* holding '{{TOTAL_PAGES}}') comes out unchanged, so the output is that of
\* one simultaneous substitution of the template.
C28_SimultaneousSubstitution ==
    pstage = 1 => phtml = Simultaneous(ptemplate, preplacements)

-----------------------------------------------------------------------------
(* Specification SpecRescan: one converter whose generate_site is called   *)
(* again and again on a content directory that may change between calls    *)

RescanPool == {FileB, FileAB, FileAC, FileIntro}

RescanIdle == cfiles = {} /\ cpages = <<>> /\ ccategories = <<>> /\ cscans = -1

\* __init__: self.all_pages = [] and self.categories = {}
RescanInit == cfiles = {} /\ cpages = <<>> /\ ccategories = <<>> /\ cscans = 0

\* self.all_pages = self.scan_directory(content_dir), on the converter as the
\* calls before left it
ScanAgain ==
    /\ cscans >= 0
    /\ cscans < MaxScans
    /\ \E files \in SUBSET RescanPool :
          LET scan == scan_directory(TRUE, files, [f \in files |-> TextPlain],
                                     ccategories)
          IN  /\ cfiles' = files
              /\ cpages' = scan.pages
              /\ ccategories' = scan.categories
    /\ cscans' = cscans + 1
    /\ UNCHANGED notRescan

RescanNext == ScanAgain

\* the places of the category map that hold a page
BucketsOf(cats, page) ==
    UNION { {<<b, k>> : k \in {x \in 1..Len(cats[b].pages) : cats[b].pages[x] = page}} :
            b \in 1..Len(cats) }

\* C27: after any number of generate_site or scan_directory calls on one
\* converter, the category map partitions the current Page list: every Page
\* of all_pages is in exactly one bucket, exactly once, and no bucket holds
\* a Page that is not in all_pages.
C27_CategoriesPartition ==
    cscans >= 1 =>
        /\ \A i \in 1..Len(cpages) :
              Cardinality(BucketsOf(ccategories, cpages[i])) = 1
        /\ \A b \in 1..Len(ccategories) : \A k \in 1..Len(ccategories[b].pages) :
              ccategories[b].pages[k] \in Range(cpages)

InitFmt ==
    /\ FmtInit
    /\ RtIdle /\ LoadIdle /\ RunIdle /\ TreeIdle /\ NavIdle
    /\ ScanIdle /\ WordsIdle /\ SeoIdle /\ SubstIdle /\ RescanIdle
SpecFmt == InitFmt /\ [][FmtNext]_vars

InitRT ==
    /\ RtInit
    /\ FmtIdle /\ LoadIdle /\ RunIdle /\ TreeIdle /\ NavIdle
    /\ ScanIdle /\ WordsIdle /\ SeoIdle /\ SubstIdle /\ RescanIdle
SpecRT == InitRT /\ [][RtNext]_vars

InitLoad ==
    /\ LoadInit
    /\ FmtIdle /\ RtIdle /\ RunIdle /\ TreeIdle /\ NavIdle
    /\ ScanIdle /\ WordsIdle /\ SeoIdle /\ SubstIdle /\ RescanIdle
SpecLoad == InitLoad /\ [][LoadNext]_vars

InitTree ==
    /\ TreeInit
    /\ FmtIdle /\ RtIdle /\ LoadIdle /\ RunIdle /\ NavIdle
    /\ ScanIdle /\ WordsIdle /\ SeoIdle /\ SubstIdle /\ RescanIdle
SpecTree == InitTree /\ [][TreeNext]_vars

InitNav ==
    /\ NavInit
    /\ FmtIdle /\ RtIdle /\ LoadIdle /\ RunIdle /\ TreeIdle
    /\ ScanIdle /\ WordsIdle /\ SeoIdle /\ SubstIdle /\ RescanIdle
SpecNav == InitNav /\ [][NavNext]_vars

InitScan ==
    /\ ScanInit
    /\ FmtIdle /\ RtIdle /\ LoadIdle /\ RunIdle /\ TreeIdle
    /\ NavIdle /\ WordsIdle /\ SeoIdle /\ SubstIdle /\ RescanIdle
SpecScan == InitScan /\ [][ScanNext]_vars

InitWords ==
    /\ WordsInit
    /\ FmtIdle /\ RtIdle /\ LoadIdle /\ RunIdle /\ TreeIdle
    /\ NavIdle /\ ScanIdle /\ SeoIdle /\ SubstIdle /\ RescanIdle
SpecWords == InitWords /\ [][WordsNext]_vars

InitSeo ==
    /\ SeoInit
    /\ FmtIdle /\ RtIdle /\ LoadIdle /\ RunIdle /\ TreeIdle
    /\ NavIdle /\ ScanIdle /\ WordsIdle /\ SubstIdle /\ RescanIdle
SpecSeo == InitSeo /\ [][SeoNext]_vars

InitSubst ==
    /\ SubstInit
    /\ FmtIdle /\ RtIdle /\ LoadIdle /\ RunIdle /\ TreeIdle
    /\ NavIdle /\ ScanIdle /\ WordsIdle /\ SeoIdle /\ RescanIdle
SpecSubst == InitSubst /\ [][SubstNext]_vars

InitRescan ==
    /\ RescanInit
    /\ FmtIdle /\ RtIdle /\ LoadIdle /\ RunIdle /\ TreeIdle
    /\ NavIdle /\ ScanIdle /\ WordsIdle /\ SeoIdle /\ SubstIdle
SpecRescan == InitRescan /\ [][RescanNext]_vars

Next == RunNext
Init ==
    /\ RunInit
    /\ FmtIdle /\ RtIdle /\ LoadIdle /\ TreeIdle /\ NavIdle
    /\ ScanIdle /\ WordsIdle /\ SeoIdle /\ SubstIdle /\ RescanIdle
Spec == Init /\ [][Next]_vars

====
